---- MODULE Spec2Model ----
(***************************************************************************)
(* Model of changelog-manager: the entry model (src/src/entry.rs), the     *)
(* entry store and changelog document (src/src/fs_manager.rs), the merge   *)
(* engine (src/src/merge.rs) and the create path (src/src/create.rs).      *)
(*                                                                         *)
(* Text is a sequence of tokens.  A token is either one character or one   *)
(* literal of the source ("## [Unreleased]", "### ", "- [", ...), so that  *)
(* trim, replace and concatenation are computed on the text itself.        *)
(***************************************************************************)
EXTENDS Integers, Sequences, FiniteSets, TLC

(***************************************************************************)
(* Bounds of the model.                                                    *)
(***************************************************************************)
MaxEntries == 3
MaxMerges == 1
\* Runs of merge in a sequence of runs without I/O failure.
MaxRuns == 2
\* Files in the store in the runs that create entries on many branches.
MaxFiles == 1

(***************************************************************************)
(* Text helpers.                                                           *)
(***************************************************************************)
\* Byte value of the characters titles are made of (String::cmp is bytewise).
ByteOf(c) ==
    CASE c = "A" -> 65
      [] c = "B" -> 66
      [] c = "a" -> 97
      [] c = "b" -> 98
      [] OTHER -> 0

RECURSIVE StrCmp(_, _)
\* <str as Ord>::cmp : -1 Less, 0 Equal, 1 Greater (lexicographic on bytes).
StrCmp(s, t) ==
    IF s = <<>> /\ t = <<>> THEN 0
    ELSE IF s = <<>> THEN -1
    ELSE IF t = <<>> THEN 1
    ELSE IF ByteOf(Head(s)) < ByteOf(Head(t)) THEN -1
    ELSE IF ByteOf(Head(s)) > ByteOf(Head(t)) THEN 1
    ELSE StrCmp(Tail(s), Tail(t))

\* char::is_whitespace on the tokens of the model.
IsWhitespace(c) == c \in {"\n", " ", "  "}

RECURSIVE TrimStart(_)
TrimStart(s) ==
    IF s = <<>> THEN <<>>
    ELSE IF IsWhitespace(Head(s)) THEN TrimStart(Tail(s))
    ELSE s

RECURSIVE TrimEnd(_)
TrimEnd(s) ==
    IF s = <<>> THEN <<>>
    ELSE IF IsWhitespace(s[Len(s)]) THEN TrimEnd(SubSeq(s, 1, Len(s) - 1))
    ELSE s

\* str::trim
Trim(s) == TrimEnd(TrimStart(s))

\* s starts with pat
StartsWith(s, pat) ==
    /\ Len(pat) <= Len(s)
    /\ SubSeq(s, 1, Len(pat)) = pat

RECURSIVE Replace(_, _, _)
\* str::replace : every non-overlapping match of pat, left to right.
Replace(s, pat, to) ==
    IF s = <<>> THEN <<>>
    ELSE IF StartsWith(s, pat)
         THEN to \o Replace(SubSeq(s, Len(pat) + 1, Len(s)), pat, to)
    ELSE <<Head(s)>> \o Replace(Tail(s), pat, to)

\* Positions at which pat occurs in s.
Occurrences(s, pat) ==
    {i \in 1..Len(s) : StartsWith(SubSeq(s, i, Len(s)), pat)}

(***************************************************************************)
(* EntryType (entry.rs 24-77).                                             *)
(***************************************************************************)
\* Declaration order of the enum; the derived Ord compares by this order.
EntryTypeDecl ==
    <<"Added", "Changed", "Fixed", "Removed", "Deprecated", "Security", "Technical">>

EntryType == {EntryTypeDecl[i] : i \in 1..Len(EntryTypeDecl)}

\* impl Display for EntryType
EntryTypeDisplay(t) ==
    CASE t = "Added" -> "Added"
      [] t = "Changed" -> "Changed"
      [] t = "Fixed" -> "Fixed"
      [] t = "Removed" -> "Removed"
      [] t = "Deprecated" -> "Deprecated"
      [] t = "Security" -> "Security"
      [] t = "Technical" -> "Technical"

\* impl FromStr for EntryType : [ok, type]
EntryTypeFromStr(s) ==
    CASE s = "ADDED" -> [ok |-> TRUE, type |-> "Added"]
      [] s = "CHANGED" -> [ok |-> TRUE, type |-> "Changed"]
      [] s = "FIXED" -> [ok |-> TRUE, type |-> "Fixed"]
      [] s = "REMOVED" -> [ok |-> TRUE, type |-> "Removed"]
      [] s = "DEPRECATED" -> [ok |-> TRUE, type |-> "Deprecated"]
      [] s = "SECURITY" -> [ok |-> TRUE, type |-> "Security"]
      [] s = "TECHNICAL" -> [ok |-> TRUE, type |-> "Technical"]
      [] OTHER -> [ok |-> FALSE, type |-> "Changed"]

(***************************************************************************)
(* Entry (entry.rs 92-142).  Option<String> is [some, val].                *)
(***************************************************************************)
None == [some |-> FALSE, val |-> <<>>]
Some(s) == [some |-> TRUE, val |-> s]

MkEntry(a, t, d, ty, b, i) ==
    [author |-> a, title |-> t, description |-> d, type |-> ty,
     is_breaking_change |-> b, issue |-> i]

\* bool::cmp : false < true
BoolCmp(x, y) == IF x = y THEN 0 ELSE IF y THEN -1 ELSE 1

\* A comparison that ignores the breaking-change flag.
EntryCmpTitleOnly(self, other) == StrCmp(self.title, other.title)

\* impl Ord for Entry : other.is_breaking_change.cmp(self...).then_with(title)
EntryCmp(self, other) ==
    IF BoolCmp(other.is_breaking_change, self.is_breaking_change) # 0
    THEN BoolCmp(other.is_breaking_change, self.is_breaking_change)
    ELSE StrCmp(self.title, other.title)

RECURSIVE InsertSorted(_, _)
\* Insert e after every element that is not greater than it (stable).
InsertSorted(sorted, e) ==
    IF sorted = <<>> THEN <<e>>
    ELSE IF EntryCmp(Head(sorted), e) <= 0
         THEN <<Head(sorted)>> \o InsertSorted(Tail(sorted), e)
    ELSE <<e>> \o sorted

RECURSIVE SortEntries(_)
\* slice::sort : stable sort by Ord.
SortEntries(v) ==
    IF v = <<>> THEN <<>>
    ELSE InsertSorted(SortEntries(SubSeq(v, 1, Len(v) - 1)), v[Len(v)])

\* to_markdown that writes no line for an empty description.
to_markdown_skip_empty_description(e) ==
    LET prefix == IF e.is_breaking_change THEN <<"**BREAKING CHANGE**", " ">> ELSE <<>>
        description == IF e.description.some /\ e.description.val # <<>>
                       THEN <<"\n", "  ">> \o e.description.val
                       ELSE <<>>
    IN <<"- [">> \o prefix \o e.title \o <<"](">> \o e.issue \o <<")">>
         \o description \o <<"\n">>

\* Entry::to_markdown
to_markdown(e) ==
    LET prefix == IF e.is_breaking_change THEN <<"**BREAKING CHANGE**", " ">> ELSE <<>>
        description == IF e.description.some
                       THEN <<"\n", "  ">> \o e.description.val
                       ELSE <<>>
    IN <<"- [">> \o prefix \o e.title \o <<"](">> \o e.issue \o <<")">>
         \o description \o <<"\n">>

(***************************************************************************)
(* Rendering of a release section (merge.rs 28-69).                        *)
(***************************************************************************)
\* The vector stored under a key of entry_map: entries of that type, in
\* the order they were pushed.
GroupOf(entries, t) == SelectSeq(entries, LAMBDA e : e.type = t)

\* Keys of entry_map in insertion (first-seen) order.
RECURSIVE FirstSeenKeys(_)
FirstSeenKeys(entries) ==
    IF entries = <<>> THEN <<>>
    ELSE LET rest == FirstSeenKeys(SubSeq(entries, 1, Len(entries) - 1))
             t == entries[Len(entries)].type
         IN IF \E i \in 1..Len(rest) : rest[i] = t THEN rest ELSE Append(rest, t)

\* Keys of entry_map in BTreeMap iteration order (ascending Ord of the key).
EntryMapKeys(entries) ==
    SelectSeq(EntryTypeDecl, LAMBDA t : \E i \in 1..Len(entries) : entries[i].type = t)

RECURSIVE ConcatMarkdown(_)
ConcatMarkdown(v) ==
    IF v = <<>> THEN <<>> ELSE to_markdown(Head(v)) \o ConcatMarkdown(Tail(v))

RECURSIVE ReleaseNotes(_, _)
\* entry_map.iter_mut().for_each(...) over the given keys.
ReleaseNotes(keys, entries) ==
    IF keys = <<>> THEN <<>>
    ELSE <<"\n", "### ", EntryTypeDisplay(Head(keys)), "\n", "\n">>
         \o ConcatMarkdown(SortEntries(GroupOf(entries, Head(keys))))
         \o ReleaseNotes(Tail(keys), entries)

\* Two decimal digits of n, as format("%m") and format("%d") print them.
Digit(n) == CASE n = 0 -> "0" [] n = 1 -> "1" [] n = 2 -> "2" [] n = 3 -> "3"
              [] n = 4 -> "4" [] n = 5 -> "5" [] n = 6 -> "6" [] n = 7 -> "7"
              [] n = 8 -> "8" [] n = 9 -> "9"
Pad2(n) == <<Digit(n \div 10), Digit(n % 10)>>
Pad4(n) == <<Digit(n \div 1000), Digit((n \div 100) % 10)>> \o Pad2(n % 100)

\* DateTime::format("%Y-%m-%d")
FormatDate(d) == Pad4(d.y) \o <<"-">> \o Pad2(d.m) \o <<"-">> \o Pad2(d.d)

\* entries_to_string with the keys in insertion order.
entries_to_string_insertion_order(entries, version, date) ==
    IF entries = <<>> THEN <<>>
    ELSE <<"## [">> \o version \o <<"] - ">> \o FormatDate(date) \o <<"\n">>
         \o <<"\n">> \o Trim(ReleaseNotes(FirstSeenKeys(entries), entries)) \o <<"\n">>

\* merge.rs entries_to_string; date is the supplied date or Local::now().
entries_to_string(entries, version, date) ==
    IF entries = <<>> THEN <<>>
    ELSE <<"## [">> \o version \o <<"] - ">> \o FormatDate(date) \o <<"\n">>
         \o <<"\n">> \o Trim(ReleaseNotes(EntryMapKeys(entries), entries)) \o <<"\n">>

(***************************************************************************)
(* JSON text.  A JSON text is either malformed (wf = FALSE) or an object:   *)
(* a sequence of members [key, val] in the order they are written.  A       *)
(* value is a string, a number, a boolean or null.                          *)
(***************************************************************************)
JStr(s) == [k |-> "string", s |-> s, n |-> 0, b |-> FALSE]
JNum(n) == [k |-> "number", s |-> <<>>, n |-> n, b |-> FALSE]
JBool(b) == [k |-> "bool", s |-> <<>>, n |-> 0, b |-> b]
JNull == [k |-> "null", s |-> <<>>, n |-> 0, b |-> FALSE]

Member(key, val) == [key |-> key, val |-> val]
JObject(members) == [wf |-> TRUE, members |-> members]
\* A text that is not valid JSON (also a truncated file).
Malformed == [wf |-> FALSE, members |-> <<>>]

\* Serialization of an absent description as the empty string.
SerializeOptionAsEmpty(d) == IF d.some THEN JStr(d.val) ELSE JStr(<<>>)

\* serde: Option<String> is null or the string.
SerializeOption(d) == IF d.some THEN JStr(d.val) ELSE JNull

\* Serializable::to_json (derive(Serialize), rename_all = "camelCase").
to_json(e) ==
    JObject(<<Member("author", JStr(e.author)),
              Member("title", JStr(e.title)),
              Member("description", SerializeOption(e.description)),
              Member("type", JStr(<<EntryTypeDisplay(e.type)>>)),
              Member("isBreakingChange", JBool(e.is_breaking_change)),
              Member("issue", JStr(e.issue))>>)

\* Indices of the members of an object that carry the key.
MembersOf(j, key) == {i \in 1..Len(j.members) : j.members[i].key = key}
HasKey(j, key) == MembersOf(j, key) # {}
Value(j, key) == j.members[CHOOSE i \in MembersOf(j, key) : TRUE].val

\* derive(Deserialize) for EntryType: the variant identifier as a string.
IsVariant(v) == v.k = "string" /\ Len(v.s) = 1 /\ v.s[1] \in EntryType

\* from_json that takes the default category for a type it does not know.
from_json_default_type(j) ==
    LET req == {"author", "title", "type", "isBreakingChange", "issue"}
        known == req \cup {"description"}
        good ==
            /\ j.wf
            /\ \A key \in known : Cardinality(MembersOf(j, key)) <= 1
            /\ \A key \in req : HasKey(j, key)
            /\ Value(j, "author").k = "string"
            /\ Value(j, "title").k = "string"
            /\ HasKey(j, "description") => Value(j, "description").k \in {"string", "null"}
            /\ Value(j, "type").k = "string"
            /\ Value(j, "isBreakingChange").k = "bool"
            /\ Value(j, "issue").k = "string"
    IN IF good
       THEN [ok |-> TRUE,
             entry |-> MkEntry(Value(j, "author").s,
                               Value(j, "title").s,
                               IF HasKey(j, "description")
                                  /\ Value(j, "description").k = "string"
                               THEN Some(Value(j, "description").s) ELSE None,
                               IF IsVariant(Value(j, "type"))
                               THEN Value(j, "type").s[1] ELSE "Changed",
                               Value(j, "isBreakingChange").b,
                               Value(j, "issue").s)]
       ELSE [ok |-> FALSE, entry |-> MkEntry(<<>>, <<>>, None, "Changed", FALSE, <<>>)]

\* Serializable::from_json (derive(Deserialize)) : [ok, entry].
from_json(j) ==
    LET req == {"author", "title", "type", "isBreakingChange", "issue"}
        known == req \cup {"description"}
        good ==
            /\ j.wf
            /\ \A key \in known : Cardinality(MembersOf(j, key)) <= 1
            /\ \A key \in req : HasKey(j, key)
            /\ Value(j, "author").k = "string"
            /\ Value(j, "title").k = "string"
            /\ HasKey(j, "description") => Value(j, "description").k \in {"string", "null"}
            /\ IsVariant(Value(j, "type"))
            /\ Value(j, "isBreakingChange").k = "bool"
            /\ Value(j, "issue").k = "string"
    IN IF good
       THEN [ok |-> TRUE,
             entry |-> MkEntry(Value(j, "author").s,
                               Value(j, "title").s,
                               IF HasKey(j, "description")
                                  /\ Value(j, "description").k = "string"
                               THEN Some(Value(j, "description").s) ELSE None,
                               Value(j, "type").s[1],
                               Value(j, "isBreakingChange").b,
                               Value(j, "issue").s)]
       ELSE [ok |-> FALSE, entry |-> MkEntry(<<>>, <<>>, None, "Changed", FALSE, <<>>)]

(***************************************************************************)
(* EntryBuilder (entry.rs 155-174, 199-241).  Option<bool> is [some, val]. *)
(***************************************************************************)
NoneBool == [some |-> FALSE, val |-> FALSE]
SomeBool(b) == [some |-> TRUE, val |-> b]

\* derive(Default) for EntryBuilder
EntryBuilderDefault ==
    [author |-> <<>>, title |-> <<>>, description |-> None, type |-> "Changed",
     is_breaking_change |-> NoneBool, issue |-> <<>>]

\* Builder::build : [ok, entry]; the code has no failing outcome.
build(b) ==
    [ok |-> TRUE,
     entry |-> MkEntry(b.author, b.title, b.description, b.type,
                       IF b.is_breaking_change.some THEN b.is_breaking_change.val
                       ELSE FALSE,
                       b.issue)]

(***************************************************************************)
(* slug::slugify as used on branch names (create.rs 103).                  *)
(***************************************************************************)
IsAlnum(c) == c \in {"a", "b", "t", "A", "B", "T", "1", "2"}
ToLower(c) == CASE c = "A" -> "a" [] c = "B" -> "b" [] c = "T" -> "t" [] OTHER -> c

RECURSIVE SlugLoop(_, _)
\* One pass over the characters; prevDash is true at the start.
SlugLoop(s, prevDash) ==
    IF s = <<>> THEN <<>>
    ELSE IF IsAlnum(Head(s)) THEN <<ToLower(Head(s))>> \o SlugLoop(Tail(s), FALSE)
    ELSE IF prevDash THEN SlugLoop(Tail(s), TRUE)
    ELSE <<"-">> \o SlugLoop(Tail(s), TRUE)

\* slugify that keeps a hyphen at the end.
slugify_keep_last_hyphen(s) == SlugLoop(s, TRUE)

slugify(s) ==
    LET r == SlugLoop(s, TRUE)
    IN IF r # <<>> /\ r[Len(r)] = "-" THEN SubSeq(r, 1, Len(r) - 1) ELSE r

(***************************************************************************)
(* Entry store and changelog document (fs_manager.rs).                     *)
(*                                                                         *)
(* The store is the content of the folder unreleased_changelogs: a         *)
(* function from file names to file contents.  A file name is the text     *)
(* <stem><extension token>.  docs maps each changelog path to              *)
(* [exists, content].                                                      *)
(***************************************************************************)
DEFAULT_CHANGELOG_PATH == "CHANGELOG.md"
SubfolderPath == "./subfolder/CHANGELOG.md"
DocPaths == {DEFAULT_CHANGELOG_PATH, SubfolderPath}

Anchor == <<"## [Unreleased]", "\n">>

BASE_CHANGELOG_CONTENT ==
    <<"# Changelog", "\n", "\n",
      "All notable changes to this project will be documented in this file.", "\n", "\n",
      "The format is based on [Keep a Changelog](...),", "\n",
      "and this project adheres to [Semantic Versioning](...).", "\n", "\n",
      "## [Unreleased]", "\n">>

\* format!("{}/{}.json", UNRELEASED_CHANGELOGS_FOLDER, filename)
EntryPath(filename) == filename \o <<".json">>

\* Path::extension : none for a name that is only ".json"
HasJsonExtension(p) == Len(p) >= 2 /\ p[Len(p)] = ".json"

JsonPaths(st) == {p \in DOMAIN st : HasJsonExtension(p)}

EmptyStore == [p \in {} |-> Malformed]

Remove(st, ps) == [p \in DOMAIN st \ ps |-> st[p]]

RECURSIVE Perms(_)
\* Orders in which read_dir may enumerate a set of files.
Perms(S) ==
    IF S = {} THEN {<<>>}
    ELSE UNION {{<<x>> \o q : q \in Perms(S \ {x})} : x \in S}

\* check_folder_existence : [ok, dir]
check_folder_existence(dir, fault) ==
    IF dir THEN [ok |-> TRUE, dir |-> TRUE]
    ELSE IF fault = "create_dir" THEN [ok |-> FALSE, dir |-> FALSE]
    ELSE [ok |-> TRUE, dir |-> TRUE]

\* write_entry with File::create instead of File::create_new.
write_entry_overwrite(dir, st, filename, buffer, fault) ==
    LET c == check_folder_existence(dir, fault)
        p == EntryPath(filename)
    IN IF ~c.ok THEN [res |-> "IoError", dir |-> c.dir, store |-> st]
       ELSE IF fault = "create" THEN [res |-> "IoError", dir |-> c.dir, store |-> st]
       ELSE IF fault = "write"
            THEN [res |-> "IoError", dir |-> c.dir,
                  store |-> [q \in DOMAIN st \cup {p} |-> IF q = p THEN Malformed ELSE st[q]]]
       ELSE [res |-> "Ok", dir |-> c.dir,
             store |-> [q \in DOMAIN st \cup {p} |-> IF q = p THEN buffer ELSE st[q]]]

\* write_entry : [res, dir, store], res in Ok, AlreadyExists, IoError.
write_entry(dir, st, filename, buffer, fault) ==
    LET c == check_folder_existence(dir, fault)
        p == EntryPath(filename)
    IN IF ~c.ok THEN [res |-> "IoError", dir |-> c.dir, store |-> st]
       ELSE IF p \in DOMAIN st THEN [res |-> "AlreadyExists", dir |-> c.dir, store |-> st]
       ELSE IF fault = "create" THEN [res |-> "IoError", dir |-> c.dir, store |-> st]
       ELSE IF fault = "write"
            THEN [res |-> "IoError", dir |-> c.dir,
                  store |-> [q \in DOMAIN st \cup {p} |-> IF q = p THEN Malformed ELSE st[q]]]
       ELSE [res |-> "Ok", dir |-> c.dir,
             store |-> [q \in DOMAIN st \cup {p} |-> IF q = p THEN buffer ELSE st[q]]]

\* fs_manager::read_entries : [ok, step, contents]; order is the directory order.
fs_read_entries(dir, st, order, fault) ==
    IF ~dir
    THEN [ok |-> FALSE, step |-> "list", fault |-> "none", contents |-> <<>>]
    ELSE IF fault = "read_dir"
    THEN [ok |-> FALSE, step |-> "list", fault |-> fault, contents |-> <<>>]
    ELSE IF fault = "read_file" /\ order # <<>>
    THEN [ok |-> FALSE, step |-> "read", fault |-> fault, contents |-> <<>>]
    ELSE [ok |-> TRUE, step |-> "none", fault |-> "none",
          contents |-> [i \in 1..Len(order) |-> st[order[i]]]]

\* merge::read_entries that drops the files that do not parse.
read_entries_skip_malformed(dir, st, order, fault) ==
    LET r == fs_read_entries(dir, st, order, fault)
        good == SelectSeq(r.contents, LAMBDA c : from_json(c).ok)
    IN IF ~r.ok THEN [ok |-> FALSE, step |-> r.step, fault |-> r.fault, entries |-> <<>>]
       ELSE [ok |-> TRUE, step |-> "none", fault |-> "none",
             entries |-> [i \in 1..Len(good) |-> from_json(good[i]).entry]]

\* merge::read_entries (merge.rs 21-26) : [ok, step, entries]
read_entries(dir, st, order, fault) ==
    LET r == fs_read_entries(dir, st, order, fault)
    IN IF ~r.ok THEN [ok |-> FALSE, step |-> r.step, fault |-> r.fault, entries |-> <<>>]
       ELSE IF \E i \in 1..Len(r.contents) : ~from_json(r.contents[i]).ok
       THEN [ok |-> FALSE, step |-> "parse", fault |-> "none", entries |-> <<>>]
       ELSE [ok |-> TRUE, step |-> "none", fault |-> "none",
             entries |-> [i \in 1..Len(r.contents) |-> from_json(r.contents[i]).entry]]

\* clear_entries that removes the files before reporting a failure.
clear_entries_eager(dir, st, fault, removed) ==
    [ok |-> ~(~dir \/ fault \in {"read_dir", "remove"}),
     store |-> Remove(st, JsonPaths(st))]

\* clear_entries that reports success without removing the listed files.
clear_entries_keep_files(dir, st, fault, removed) ==
    IF ~dir \/ fault = "read_dir" THEN [ok |-> FALSE, store |-> st]
    ELSE IF fault = "remove" /\ JsonPaths(st) # {}
    THEN [ok |-> FALSE, store |-> Remove(st, removed)]
    ELSE [ok |-> TRUE, store |-> st]

\* clear_entries : [ok, store]; on a failing remove_file the files in
\* removed (those before it in directory order) are gone.
clear_entries(dir, st, fault, removed) ==
    IF ~dir \/ fault = "read_dir" THEN [ok |-> FALSE, store |-> st]
    ELSE IF fault = "remove" /\ JsonPaths(st) # {}
    THEN [ok |-> FALSE, store |-> Remove(st, removed)]
    ELSE [ok |-> TRUE, store |-> Remove(st, JsonPaths(st))]

Absent == [exists |-> FALSE, content |-> <<>>]
File(c) == [exists |-> TRUE, content |-> c]

\* check_changelog_existence that creates a missing document empty.
check_changelog_existence_empty(ds, path, fault, truncated) ==
    IF ds[path].exists THEN [ok |-> TRUE, docs |-> ds]
    ELSE IF fault = "create_dir_all" THEN [ok |-> FALSE, docs |-> ds]
    ELSE IF fault = "write_base"
         THEN [ok |-> FALSE,
               docs |-> IF truncated THEN [ds EXCEPT ![path] = File(<<>>)] ELSE ds]
    ELSE [ok |-> TRUE, docs |-> [ds EXCEPT ![path] = File(<<>>)]]

\* check_changelog_existence : [ok, docs]; truncated tells whether a failing
\* fs::write has already created the file.
check_changelog_existence(ds, path, fault, truncated) ==
    IF ds[path].exists THEN [ok |-> TRUE, docs |-> ds]
    ELSE IF fault = "create_dir_all" THEN [ok |-> FALSE, docs |-> ds]
    ELSE IF fault = "write_base"
         THEN [ok |-> FALSE,
               docs |-> IF truncated THEN [ds EXCEPT ![path] = File(<<>>)] ELSE ds]
    ELSE [ok |-> TRUE, docs |-> [ds EXCEPT ![path] = File(BASE_CHANGELOG_CONTENT)]]

\* write_changelog that returns on empty content before looking at the file.
write_changelog_return_first(ds, content, changelog, fault, truncated) ==
    LET path == IF changelog.some THEN changelog.val ELSE DEFAULT_CHANGELOG_PATH
        c == check_changelog_existence(ds, path, fault, truncated)
    IN IF content = <<>> THEN [ok |-> TRUE, docs |-> ds]
       ELSE IF ~c.ok THEN c
       ELSE IF fault = "read_doc" THEN [ok |-> FALSE, docs |-> c.docs]
       ELSE IF fault = "write_doc"
            THEN [ok |-> FALSE,
                  docs |-> IF truncated THEN [c.docs EXCEPT ![path] = File(<<>>)]
                           ELSE c.docs]
       ELSE [ok |-> TRUE,
             docs |-> [c.docs EXCEPT ![path] =
                          File(Replace(c.docs[path].content, Anchor,
                                       Anchor \o <<"\n">> \o content \o <<"\n">>))]]

\* write_changelog without the early return on empty content.
write_changelog_no_return(ds, content, changelog, fault, truncated) ==
    LET path == IF changelog.some THEN changelog.val ELSE DEFAULT_CHANGELOG_PATH
        c == check_changelog_existence(ds, path, fault, truncated)
    IN IF ~c.ok THEN c
       ELSE IF fault = "read_doc" THEN [ok |-> FALSE, docs |-> c.docs]
       ELSE IF fault = "write_doc"
            THEN [ok |-> FALSE,
                  docs |-> IF truncated THEN [c.docs EXCEPT ![path] = File(<<>>)]
                           ELSE c.docs]
       ELSE [ok |-> TRUE,
             docs |-> [c.docs EXCEPT ![path] =
                          File(Replace(c.docs[path].content, Anchor,
                                       Anchor \o <<"\n">> \o content \o <<"\n">>))]]

\* write_changelog that reports success when writing the document failed.
write_changelog_swallow(ds, content, changelog, fault, truncated) ==
    LET path == IF changelog.some THEN changelog.val ELSE DEFAULT_CHANGELOG_PATH
        c == check_changelog_existence(ds, path, fault, truncated)
    IN IF ~c.ok THEN c
       ELSE IF content = <<>> THEN [ok |-> TRUE, docs |-> c.docs]
       ELSE IF fault = "read_doc" THEN [ok |-> FALSE, docs |-> c.docs]
       ELSE IF fault = "write_doc"
            THEN [ok |-> TRUE,
                  docs |-> IF truncated THEN [c.docs EXCEPT ![path] = File(<<>>)]
                           ELSE c.docs]
       ELSE [ok |-> TRUE,
             docs |-> [c.docs EXCEPT ![path] =
                          File(Replace(c.docs[path].content, Anchor,
                                       Anchor \o <<"\n">> \o content \o <<"\n">>))]]

\* write_changelog that puts the new content above the anchor.
write_changelog_above_anchor(ds, content, changelog, fault, truncated) ==
    LET path == IF changelog.some THEN changelog.val ELSE DEFAULT_CHANGELOG_PATH
        c == check_changelog_existence(ds, path, fault, truncated)
    IN IF ~c.ok THEN c
       ELSE IF content = <<>> THEN [ok |-> TRUE, docs |-> c.docs]
       ELSE IF fault = "read_doc" THEN [ok |-> FALSE, docs |-> c.docs]
       ELSE IF fault = "write_doc"
            THEN [ok |-> FALSE,
                  docs |-> IF truncated THEN [c.docs EXCEPT ![path] = File(<<>>)]
                           ELSE c.docs]
       ELSE [ok |-> TRUE,
             docs |-> [c.docs EXCEPT ![path] =
                          File(Replace(c.docs[path].content, Anchor,
                                       content \o <<"\n">> \o Anchor \o <<"\n">>))]]

\* write_changelog that starts the document again from the template.
write_changelog_from_template(ds, content, changelog, fault, truncated) ==
    LET path == IF changelog.some THEN changelog.val ELSE DEFAULT_CHANGELOG_PATH
        c == check_changelog_existence(ds, path, fault, truncated)
    IN IF ~c.ok THEN c
       ELSE IF content = <<>> THEN [ok |-> TRUE, docs |-> c.docs]
       ELSE IF fault = "read_doc" THEN [ok |-> FALSE, docs |-> c.docs]
       ELSE IF fault = "write_doc"
            THEN [ok |-> FALSE,
                  docs |-> IF truncated THEN [c.docs EXCEPT ![path] = File(<<>>)]
                           ELSE c.docs]
       ELSE [ok |-> TRUE,
             docs |-> [c.docs EXCEPT ![path] =
                          File(Replace(BASE_CHANGELOG_CONTENT, Anchor,
                                       Anchor \o <<"\n">> \o content \o <<"\n">>))]]

\* write_changelog that leaves alone a document which already has the
\* content.
write_changelog_once(ds, content, changelog, fault, truncated) ==
    LET path == IF changelog.some THEN changelog.val ELSE DEFAULT_CHANGELOG_PATH
        c == check_changelog_existence(ds, path, fault, truncated)
    IN IF ~c.ok THEN c
       ELSE IF content = <<>> THEN [ok |-> TRUE, docs |-> c.docs]
       ELSE IF fault = "read_doc" THEN [ok |-> FALSE, docs |-> c.docs]
       ELSE IF fault = "write_doc"
            THEN [ok |-> FALSE,
                  docs |-> IF truncated THEN [c.docs EXCEPT ![path] = File(<<>>)]
                           ELSE c.docs]
       ELSE IF Occurrences(c.docs[path].content, content) # {}
            THEN [ok |-> TRUE, docs |-> c.docs]
       ELSE [ok |-> TRUE,
             docs |-> [c.docs EXCEPT ![path] =
                          File(Replace(c.docs[path].content, Anchor,
                                       Anchor \o <<"\n">> \o content \o <<"\n">>))]]

\* write_changelog (fs_manager.rs 69-86) : [ok, docs]
write_changelog(ds, content, changelog, fault, truncated) ==
    LET path == IF changelog.some THEN changelog.val ELSE DEFAULT_CHANGELOG_PATH
        c == check_changelog_existence(ds, path, fault, truncated)
    IN IF ~c.ok THEN c
       ELSE IF content = <<>> THEN [ok |-> TRUE, docs |-> c.docs]
       ELSE IF fault = "read_doc" THEN [ok |-> FALSE, docs |-> c.docs]
       ELSE IF fault = "write_doc"
            THEN [ok |-> FALSE,
                  docs |-> IF truncated THEN [c.docs EXCEPT ![path] = File(<<>>)]
                           ELSE c.docs]
       ELSE [ok |-> TRUE,
             docs |-> [c.docs EXCEPT ![path] =
                          File(Replace(c.docs[path].content, Anchor,
                                       Anchor \o <<"\n">> \o content \o <<"\n">>))]]

(***************************************************************************)
(* The create path of create.rs.                                           *)
(***************************************************************************)
SomeNum(n) == [some |-> TRUE, val |-> n]
SomeTok(t) == [some |-> TRUE, val |-> t]

\* u32 as Display prints it (numbers below 100).
NumToStr(n) == IF n < 10 THEN <<Digit(n)>> ELSE <<Digit(n \div 10), Digit(n % 10)>>

\* create.rs struct Entry built by process_static_input : [ok, entry];
\* not ok is a panic of one of the expect calls.
create_build_entry(fields, default_user) ==
    LET ty == EntryTypeFromStr(fields.entry_type.val)
    IN [ok |-> /\ fields.entry_type.some
               /\ ty.ok
               /\ fields.title.some
               /\ fields.issue.some,
        entry |-> [author |-> IF fields.author.some THEN fields.author.val
                              ELSE default_user,
                   title |-> fields.title.val,
                   description |-> None,
                   entry_type |-> ty.type,
                   is_breaking_change |-> fields.is_breaking_change,
                   issue |-> fields.issue.val]]

\* impl JSONWriterValue for Entry, through to_pretty_json_string.
to_pretty_json_string(e) ==
    JObject(<<Member("author", JStr(e.author)),
              Member("title", JStr(e.title)),
              Member("description", SerializeOptionAsEmpty(e.description)),
              Member("type", JStr(<<EntryTypeDisplay(e.entry_type)>>)),
              Member("isBreakingChange",
                     JBool(IF e.is_breaking_change.some THEN e.is_breaking_change.val
                           ELSE FALSE)),
              Member("issue", JNum(e.issue))>>)

\* The entry.rs Entry that a create.rs Entry stands for.
EntryOfCreate(e) ==
    MkEntry(e.author, e.title, e.description, e.entry_type,
            IF e.is_breaking_change.some THEN e.is_breaking_change.val ELSE FALSE,
            NumToStr(e.issue))

(***************************************************************************)
(* The update check (update.rs 46-76).  A version is a text of one         *)
(* character per token.                                                    *)
(***************************************************************************)
IsDigit(c) == c \in {"0", "1", "2", "3", "4", "5", "6", "7", "8", "9"}
DigitValue(c) ==
    CASE c = "0" -> 0 [] c = "1" -> 1 [] c = "2" -> 2 [] c = "3" -> 3 [] c = "4" -> 4
      [] c = "5" -> 5 [] c = "6" -> 6 [] c = "7" -> 7 [] c = "8" -> 8 [] c = "9" -> 9

RECURSIVE Split(_, _)
\* str::split(sep) : the pieces between the separators, empty ones included.
Split(s, sep) ==
    IF \A i \in 1..Len(s) : s[i] # sep THEN <<s>>
    ELSE LET i == CHOOSE k \in 1..Len(s) : s[k] = sep /\ \A m \in 1..(k - 1) : s[m] # sep
         IN <<SubSeq(s, 1, i - 1)>> \o Split(SubSeq(s, i + 1, Len(s)), sep)

\* Regex ^\d+\.\d+\.\d+$ on ASCII text.
is_valid_semver_version(version) ==
    LET parts == Split(version, ".")
    IN /\ Len(parts) = 3
       /\ \A i \in 1..3 :
             /\ parts[i] # <<>>
             /\ \A k \in 1..Len(parts[i]) : IsDigit(parts[i][k])

RECURSIVE StripZeros(_)
StripZeros(ds) ==
    IF Len(ds) > 1 /\ Head(ds) = "0" THEN StripZeros(Tail(ds)) ELSE ds

RECURSIVE DigitsCmp(_, _)
\* Comparison of two digit texts of the same length: -1, 0, 1.
DigitsCmp(a, b) ==
    IF a = <<>> THEN 0
    ELSE IF DigitValue(Head(a)) < DigitValue(Head(b)) THEN -1
    ELSE IF DigitValue(Head(a)) > DigitValue(Head(b)) THEN 1
    ELSE DigitsCmp(Tail(a), Tail(b))

\* Comparison of the numbers two digit texts without leading zeros denote.
NumberCmp(a, b) ==
    IF Len(a) < Len(b) THEN -1 ELSE IF Len(a) > Len(b) THEN 1 ELSE DigitsCmp(a, b)

\* str::parse::<u32> of a text of digits : [ok, digits]; the number is kept
\* as its digits without leading zeros, and a number above u32::MAX is an
\* error.
parse_u32(text) ==
    LET digits == StripZeros(text)
        max == <<"4", "2", "9", "4", "9", "6", "7", "2", "9", "5">>
    IN [ok |-> /\ text # <<>>
               /\ \A k \in 1..Len(text) : IsDigit(text[k])
               /\ NumberCmp(digits, max) <= 0,
        digits |-> digits]

\* is_newer_release : zip of the components of the two versions, any(r < l).
is_newer_release(release, current_version) ==
    IF ~is_valid_semver_version(current_version) THEN FALSE
    ELSE IF ~is_valid_semver_version(release) THEN FALSE
    ELSE LET cur == Split(current_version, ".")
             rel == Split(release, ".")
             n == IF Len(cur) < Len(rel) THEN Len(cur) ELSE Len(rel)
         IN \E i \in 1..n :
               LET r == parse_u32(cur[i])
                   l == parse_u32(rel[i])
               IN r.ok /\ l.ok /\ NumberCmp(r.digits, l.digits) < 0

(***************************************************************************)
(* Inputs.                                                                 *)
(***************************************************************************)
Titles == {<<"a">>, <<"b">>}
Branches == {<<"t", "_", "b">>, <<"T", "-", "-", "b">>, <<"b", "_">>}
\* Branch the entries of a sequence of runs are created on.
RunBranches == {<<"b", "_">>}
Usernames == {<<"u">>}
Versions == {<<"1.0.0">>, <<"1.1.0">>}
Clock == {[y |-> 2024, m |-> 2, d |-> 15]}
NoDate == [some |-> FALSE, val |-> [y |-> 0, m |-> 0, d |-> 0]]
SomeDate(d) == [some |-> TRUE, val |-> d]
DateArgs == {NoDate, SomeDate([y |-> 2021, m |-> 8, d |-> 1])}
\* Dates given to the merges of a whole run of the tool.
RunDateArgs == {NoDate}
NoPath == [some |-> FALSE, val |-> ""]
SomePath(p) == [some |-> TRUE, val |-> p]
ChangelogArgs == {NoPath, SomePath(SubfolderPath)}

\* Command lines of create as create.rs reads them.
CreateFields ==
    [author : {None},
     title : {Some(<<"a">>)},
     entry_type : {SomeTok("ADDED"), SomeTok("added")},
     is_breaking_change : {NoneBool},
     issue : {SomeNum(42)}]

\* Command lines of create as main.rs reads them (clap: title, type and
\* issue are required arguments).
MainFields ==
    {[author |-> None, title |-> <<"a">>, type |-> "Changed",
      is_breaking_change |-> NoneBool, issue |-> <<"1">>, description |-> None],
     [author |-> None, title |-> <<"b">>, type |-> "Added",
      is_breaking_change |-> SomeBool(TRUE), issue |-> <<"2">>,
      description |-> Some(<<"d">>)]}

\* Entries the rendering is exercised on: every title and flag in the first
\* three categories, one entry in each of the others.
RenderEntries ==
    {MkEntry(<<"u">>, t, None, ty, b, <<"1">>) :
        t \in Titles, ty \in {"Added", "Changed", "Fixed"}, b \in BOOLEAN}
    \cup {MkEntry(<<"u">>, <<"a">>, None, ty, FALSE, <<"1">>) : ty \in EntryType}

RECURSIVE SeqsUpTo(_, _)
SeqsUpTo(S, n) ==
    IF n = 0 THEN {<<>>}
    ELSE LET shorter == SeqsUpTo(S, n - 1)
         IN shorter \cup {Append(q, x) : q \in {r \in shorter : Len(r) = n - 1}, x \in S}

\* Changelog documents found at the default path when the tool starts.
OldSection ==
    <<"## [1.2.3] - 2024-10-14", "\n", "\n", "### Added", "\n", "\n",
      "- Some new feature", "\n", "\n">>
InitialDocs ==
    {Absent,
     File(BASE_CHANGELOG_CONTENT \o <<"\n">> \o OldSection),
     File(<<"# Notes", "\n">>)}

\* Contents of the store folder found when the tool starts.
InitialStores ==
    LET first == to_json(MkEntry(<<"u">>, <<"a">>, None, "Changed", FALSE, <<"1">>))
        second == to_json(MkEntry(<<"u">>, <<"b">>, Some(<<"d">>), "Added", TRUE, <<"2">>))
    IN {EmptyStore,
        (<<"notes", ".txt">> :> Malformed),
        (<<"b", ".json">> :> first) @@ (<<"t", "-", "b", ".json">> :> second),
        (<<"b", ".json">> :> first) @@ (<<"t", "-", "b", ".json">> :> Malformed)}

(***************************************************************************)
(* State.                                                                  *)
(***************************************************************************)
VARIABLES
    dirExists,     \* the folder unreleased_changelogs exists
    store,         \* its files
    docs,          \* the changelog documents
    pc,            \* position of merge_entries: idle, render, write, clear
    mArgs,         \* arguments of the running or last merge
    mEntries,      \* entries (merge.rs 15)
    mContent,      \* new_content (merge.rs 16)
    mergeResult,   \* [status, step] of the last merge
    preStore,      \* store when the last merge started
    preDocs,       \* docs when the last merge started
    merges,        \* number of merges started
    createResult,  \* what the last create did
    interrupted,   \* what the last merge that was stopped half-way had done
    creators,      \* the calls of write_entry in progress, one per process
    update,        \* the versions given to is_newer_release and its answer
    builder,       \* an EntryBuilder under construction
    built          \* result of the last build

vars == <<dirExists, store, docs, pc, mArgs, mEntries, mContent, mergeResult,
          preStore, preDocs, merges, createResult, interrupted, creators, update,
          builder, built>>

mergeVars == <<pc, mArgs, mEntries, mContent, mergeResult, preStore, preDocs, merges,
               interrupted>>
builderVars == <<builder, built>>
otherVars == <<creators, update>>

NoArgs == [version |-> <<>>, date |-> NoDate, changelog |-> NoPath]
NoMerge == [status |-> "none", step |-> "none", fault |-> "none"]
NoCreate ==
    [op |-> "none", branch |-> <<>>, path |-> <<>>, folder |-> FALSE,
     existed |-> FALSE, prior |-> Malformed, io |-> "none", returned |-> "none",
     entry |-> MkEntry(<<>>, <<>>, None, "Changed", FALSE, <<>>)]
NoDocs == [p \in DocPaths |-> Absent]
NotInterrupted == [at |-> "none", args |-> NoArgs, entries |-> <<>>, content |-> <<>>]
\* Processes that call write_entry side by side.
Proc == {1, 2}
NoCreators ==
    [i \in Proc |->
        [pc |-> "none", filename |-> <<>>, buffer |-> Malformed, res |-> "none",
         linked |-> FALSE]]
NoUpdate == [release |-> <<>>, current |-> <<>>, done |-> FALSE, newer |-> FALSE]
NotBuilt == [done |-> FALSE, ok |-> FALSE,
             entry |-> MkEntry(<<>>, <<>>, None, "Changed", FALSE, <<>>)]

InitBase ==
    /\ mArgs = NoArgs
    /\ mContent = <<>>
    /\ mergeResult = NoMerge
    /\ preStore = EmptyStore
    /\ preDocs = NoDocs
    /\ merges = 0
    /\ createResult = NoCreate
    /\ interrupted = NotInterrupted
    /\ builder = EntryBuilderDefault
    /\ built = NotBuilt

InitCommon ==
    /\ InitBase
    /\ creators = NoCreators
    /\ update = NoUpdate

Init ==
    /\ dirExists \in BOOLEAN
    /\ store \in InitialStores
    /\ dirExists \/ store = EmptyStore
    /\ \E d \in InitialDocs : docs = [NoDocs EXCEPT ![DEFAULT_CHANGELOG_PATH] = d]
    /\ pc = "idle"
    /\ mEntries = <<>>
    /\ InitCommon

(***************************************************************************)
(* merge_entries (merge.rs 10-19), one action per statement.               *)
(***************************************************************************)
ReadFaults == {"none", "read_dir", "read_file"}
WriteFaults == {"none", "create_dir_all", "write_base", "read_doc", "write_doc"}
ClearFaults == {"none", "read_dir", "remove"}
CreateFaults == {"none", "create_dir", "create", "write"}

\* let entries = read_entries()?;
MergeReadEntries(version, date, changelog, order, fault) ==
    LET r == read_entries(dirExists, store, order, fault)
    IN /\ pc = "idle"
       /\ merges' = merges + 1
       /\ mArgs' = [version |-> version, date |-> date, changelog |-> changelog]
       /\ preStore' = store
       /\ preDocs' = docs
       /\ mContent' = <<>>
       /\ createResult' = NoCreate
       /\ mEntries' = r.entries
       /\ IF r.ok
          THEN /\ pc' = "render"
               /\ mergeResult' = [status |-> "running", step |-> "none", fault |-> "none"]
          ELSE /\ pc' = "idle"
               /\ mergeResult' = [status |-> "Err", step |-> r.step, fault |-> r.fault]
       /\ UNCHANGED <<dirExists, store, docs, interrupted, builderVars, otherVars>>

\* let new_content = entries_to_string(entries, version, date)?;
MergeEntriesToString(now) ==
    /\ pc = "render"
    /\ mContent' = entries_to_string(mEntries, mArgs.version,
                                     IF mArgs.date.some THEN mArgs.date.val ELSE now)
    /\ pc' = "write"
    /\ UNCHANGED <<dirExists, store, docs, mArgs, mEntries, mergeResult, preStore,
                   preDocs, merges, createResult, interrupted, builderVars, otherVars>>

\* write_changelog followed by clear_entries whatever its result.
MergeWriteChangelogThenClear(fault, truncated) ==
    LET r == write_changelog(docs, mContent, mArgs.changelog, fault, truncated)
    IN /\ pc = "write"
       /\ docs' = r.docs
       /\ IF r.ok
          THEN /\ pc' = "clear"
               /\ UNCHANGED <<store, mergeResult>>
          ELSE /\ pc' = "idle"
               /\ store' = Remove(store, JsonPaths(store))
               /\ mergeResult' = [status |-> "Err", step |-> "document", fault |-> fault]
       /\ UNCHANGED <<dirExists, mArgs, mEntries, mContent, preStore, preDocs,
                      merges, createResult, interrupted, builderVars, otherVars>>

\* fs_manager::write_changelog(new_content, changelog)?;
MergeWriteChangelog(fault, truncated) ==
    LET r == write_changelog(docs, mContent, mArgs.changelog, fault, truncated)
    IN /\ pc = "write"
       /\ docs' = r.docs
       /\ IF r.ok
          THEN /\ pc' = "clear"
               /\ UNCHANGED mergeResult
          ELSE /\ pc' = "idle"
               /\ mergeResult' = [status |-> "Err", step |-> "document", fault |-> fault]
       /\ UNCHANGED <<dirExists, store, mArgs, mEntries, mContent, preStore, preDocs,
                      merges, createResult, interrupted, builderVars, otherVars>>

\* Ok(fs_manager::clear_entries()?)
MergeClearEntries(fault, removed) ==
    LET r == clear_entries(dirExists, store, fault, removed)
    IN /\ pc = "clear"
       /\ store' = r.store
       /\ pc' = "idle"
       /\ mergeResult' = IF r.ok THEN [status |-> "Ok", step |-> "none", fault |-> "none"]
                         ELSE [status |-> "Err", step |-> "clear",
                               fault |-> IF dirExists THEN fault ELSE "none"]
       /\ creators' = [i \in Proc |->
                          IF /\ creators[i].linked
                             /\ EntryPath(creators[i].filename) \notin DOMAIN r.store
                          THEN [creators[i] EXCEPT !.linked = FALSE]
                          ELSE creators[i]]
       /\ UNCHANGED <<dirExists, docs, mArgs, mEntries, mContent, preStore, preDocs,
                      merges, createResult, interrupted, builderVars, update>>

(***************************************************************************)
(* create (create.rs 74-107): process_static_input and                    *)
(* create_changelog_entry.                                                 *)
(***************************************************************************)
create_process_static_input(fields, default_user, branch, fault) ==
    LET b == create_build_entry(fields, default_user)
        filename == slugify(branch)
        buffer == to_pretty_json_string(b.entry)
        w == write_entry(dirExists, store, filename, buffer, fault)
        p == EntryPath(filename)
    IN /\ pc = "idle"
       /\ IF b.ok
          THEN /\ dirExists' = w.dir
               /\ store' = w.store
               /\ createResult' =
                     [op |-> "create", branch |-> branch, path |-> p,
                      folder |-> dirExists,
                      existed |-> p \in DOMAIN store,
                      prior |-> IF p \in DOMAIN store THEN store[p] ELSE Malformed,
                      io |-> w.res, returned |-> "unit",
                      entry |-> EntryOfCreate(b.entry)]
          ELSE /\ UNCHANGED <<dirExists, store>>
               /\ createResult' = [NoCreate EXCEPT !.op = "create", !.returned = "panic"]
       /\ mergeResult' = NoMerge
       /\ mArgs' = NoArgs
       /\ mEntries' = <<>>
       /\ mContent' = <<>>
       /\ preStore' = EmptyStore
       /\ preDocs' = NoDocs
       /\ UNCHANGED <<docs, pc, merges, interrupted, builderVars, otherVars>>

(***************************************************************************)
(* create as main.rs calls it (main.rs 83-100): the entry is built by the  *)
(* builder and handed to create_changelog_entry(&Entry, &String), which     *)
(* returns a Result.                                                       *)
(***************************************************************************)
main_process_static_input(fields, default_user, branch, fault) ==
    LET b == build([author |-> IF fields.author.some THEN fields.author.val
                               ELSE default_user,
                    title |-> fields.title,
                    type |-> fields.type,
                    is_breaking_change |-> fields.is_breaking_change,
                    issue |-> fields.issue,
                    description |-> fields.description])
        filename == slugify(branch)
        w == write_entry(dirExists, store, filename, to_json(b.entry), fault)
        p == EntryPath(filename)
    IN /\ pc = "idle"
       /\ dirExists' = w.dir
       /\ store' = w.store
       /\ createResult' =
             [op |-> "main_create", branch |-> branch, path |-> p,
              folder |-> dirExists,
              existed |-> p \in DOMAIN store,
              prior |-> IF p \in DOMAIN store THEN store[p] ELSE Malformed,
              io |-> w.res, returned |-> w.res,
              entry |-> b.entry]
       /\ mergeResult' = NoMerge
       /\ mArgs' = NoArgs
       /\ mEntries' = <<>>
       /\ mContent' = <<>>
       /\ preStore' = EmptyStore
       /\ preDocs' = NoDocs
       /\ UNCHANGED <<docs, pc, merges, interrupted, builderVars, otherVars>>

(***************************************************************************)
(* write_entry (fs_manager.rs 22-37) one system call at a time, as it runs *)
(* in a process of its own next to other invocations of the tool.  A file  *)
(* that File::create_new has created is empty until write_all has run; a   *)
(* process whose file is removed meanwhile keeps writing to the file it    *)
(* has opened, which is no longer in the folder (linked = FALSE).          *)
(***************************************************************************)
\* write_entry(filename, buffer) is called in process i.
CallWriteEntry(i, filename, buffer) ==
    /\ creators[i].pc = "none"
    /\ creators' = [creators EXCEPT ![i] =
                       [pc |-> "exists", filename |-> filename, buffer |-> buffer,
                        res |-> "none", linked |-> FALSE]]
    /\ UNCHANGED <<dirExists, store, docs, mergeVars, createResult, update, builderVars>>

\* check_folder_existence: Path::new(UNRELEASED_CHANGELOGS_FOLDER).exists()
PathExists(i) ==
    /\ creators[i].pc = "exists"
    /\ creators' = [creators EXCEPT ![i].pc =
                       IF dirExists THEN "create_new" ELSE "create_dir"]
    /\ UNCHANGED <<dirExists, store, docs, mergeVars, createResult, update, builderVars>>

\* check_folder_existence: std::fs::create_dir, which fails with
\* AlreadyExists when the folder has been created since Path::exists.
CreateDir(i) ==
    /\ creators[i].pc = "create_dir"
    /\ IF dirExists
       THEN /\ creators' = [creators EXCEPT ![i].pc = "done",
                                             ![i].res = "AlreadyExists"]
            /\ UNCHANGED dirExists
       ELSE /\ creators' = [creators EXCEPT ![i].pc = "create_new"]
            /\ dirExists' = TRUE
    /\ UNCHANGED <<store, docs, mergeVars, createResult, update, builderVars>>

\* File::create, which truncates an existing file, instead of create_new.
CreateTruncate(i) ==
    LET p == EntryPath(creators[i].filename)
    IN /\ creators[i].pc = "create_new"
       /\ store' = [q \in DOMAIN store \cup {p} |-> IF q = p THEN Malformed ELSE store[q]]
       /\ creators' = [creators EXCEPT ![i].pc = "write_all", ![i].linked = TRUE]
       /\ UNCHANGED <<dirExists, docs, mergeVars, createResult, update, builderVars>>

\* File::create_new: creates the file empty, atomically, or fails with
\* AlreadyExists.
CreateNew(i) ==
    LET p == EntryPath(creators[i].filename)
    IN /\ creators[i].pc = "create_new"
       /\ IF p \in DOMAIN store
          THEN /\ creators' = [creators EXCEPT ![i].pc = "done",
                                                ![i].res = "AlreadyExists"]
               /\ UNCHANGED store
          ELSE /\ store' = [q \in DOMAIN store \cup {p} |->
                               IF q = p THEN Malformed ELSE store[q]]
               /\ creators' = [creators EXCEPT ![i].pc = "write_all",
                                                ![i].linked = TRUE]
       /\ UNCHANGED <<dirExists, docs, mergeVars, createResult, update, builderVars>>

\* .write_all(buffer.as_bytes()), then the file is closed.
WriteAll(i) ==
    LET p == EntryPath(creators[i].filename)
    IN /\ creators[i].pc = "write_all"
       /\ store' = IF creators[i].linked
                    THEN [store EXCEPT ![p] = creators[i].buffer]
                    ELSE store
       /\ creators' = [creators EXCEPT ![i].pc = "done", ![i].res = "Ok",
                                        ![i].linked = FALSE]
       /\ UNCHANGED <<dirExists, docs, mergeVars, createResult, update, builderVars>>

Next ==
    \/ /\ merges < MaxMerges
       /\ \E version \in Versions, date \in RunDateArgs, changelog \in ChangelogArgs,
             fault \in ReadFaults :
             \E order \in Perms(JsonPaths(store)) :
                MergeReadEntries(version, date, changelog, order, fault)
    \/ \E now \in Clock : MergeEntriesToString(now)
    \/ \E fault \in WriteFaults, truncated \in BOOLEAN :
          MergeWriteChangelog(fault, truncated)
    \/ \E fault \in ClearFaults :
          \E removed \in SUBSET JsonPaths(store) :
             /\ removed # JsonPaths(store) \/ JsonPaths(store) = {}
             /\ MergeClearEntries(fault, removed)
    \/ /\ merges < MaxMerges
       /\ \E fields \in CreateFields, u \in Usernames, branch \in Branches,
             fault \in CreateFaults :
             create_process_static_input(fields, u, branch, fault)
    \/ /\ merges < MaxMerges
       /\ \E fields \in MainFields, u \in Usernames, branch \in Branches,
             fault \in CreateFaults :
             main_process_static_input(fields, u, branch, fault)

Spec == Init /\ [][Next]_vars

(***************************************************************************)
(* Rendering alone: entries_to_string applied to every list of at most     *)
(* MaxEntries entries, in every order.                                     *)
(***************************************************************************)
InitRender ==
    /\ dirExists = TRUE
    /\ store = EmptyStore
    /\ docs = NoDocs
    /\ pc = "render"
    /\ mEntries \in SeqsUpTo(RenderEntries, MaxEntries)
    /\ \E version \in Versions, date \in DateArgs :
          mArgs = [version |-> version, date |-> date, changelog |-> NoPath]
    /\ mContent = <<>>
    /\ mergeResult = [status |-> "running", step |-> "none", fault |-> "none"]
    /\ preStore = EmptyStore
    /\ preDocs = NoDocs
    /\ merges = 1
    /\ createResult = NoCreate
    /\ interrupted = NotInterrupted
    /\ creators = NoCreators
    /\ update = NoUpdate
    /\ builder = EntryBuilderDefault
    /\ built = NotBuilt

NextRender == \E now \in Clock : MergeEntriesToString(now)

SpecRender == InitRender /\ [][NextRender]_vars

(***************************************************************************)
(* The builder alone (entry.rs 199-241).                                   *)
(***************************************************************************)
BuilderStrings == {<<>>, <<"a">>}
BuilderDescriptions == {None, Some(<<>>), Some(<<"d">>)}
BuilderFlags == {NoneBool, SomeBool(FALSE), SomeBool(TRUE)}

fsVars == <<dirExists, store, docs, createResult>>

\* Entry::builder()
Entry_builder ==
    /\ builder' = EntryBuilderDefault
    /\ built' = NotBuilt
    /\ UNCHANGED <<fsVars, mergeVars, otherVars>>

BuilderAuthor(author) ==
    /\ ~built.done
    /\ builder' = [builder EXCEPT !.author = author]
    /\ UNCHANGED <<built, fsVars, mergeVars, otherVars>>

BuilderTitle(title) ==
    /\ ~built.done
    /\ builder' = [builder EXCEPT !.title = title]
    /\ UNCHANGED <<built, fsVars, mergeVars, otherVars>>

BuilderDescription(description) ==
    /\ ~built.done
    /\ builder' = [builder EXCEPT !.description = description]
    /\ UNCHANGED <<built, fsVars, mergeVars, otherVars>>

BuilderType(entry_type) ==
    /\ ~built.done
    /\ builder' = [builder EXCEPT !.type = entry_type]
    /\ UNCHANGED <<built, fsVars, mergeVars, otherVars>>

BuilderIsBreakingChange(is_breaking_change) ==
    /\ ~built.done
    /\ builder' = [builder EXCEPT !.is_breaking_change = is_breaking_change]
    /\ UNCHANGED <<built, fsVars, mergeVars, otherVars>>

BuilderIssue(issue) ==
    /\ ~built.done
    /\ builder' = [builder EXCEPT !.issue = issue]
    /\ UNCHANGED <<built, fsVars, mergeVars, otherVars>>

\* build(self) -> Entry
BuilderBuild ==
    /\ ~built.done
    /\ built' = [done |-> TRUE, ok |-> build(builder).ok, entry |-> build(builder).entry]
    /\ UNCHANGED <<builder, fsVars, mergeVars, otherVars>>

InitBuilder ==
    /\ dirExists = TRUE
    /\ store = EmptyStore
    /\ docs = NoDocs
    /\ pc = "idle"
    /\ mEntries = <<>>
    /\ InitCommon

NextBuilder ==
    \/ Entry_builder
    \/ \E author \in BuilderStrings : BuilderAuthor(author)
    \/ \E title \in BuilderStrings : BuilderTitle(title)
    \/ \E description \in BuilderDescriptions : BuilderDescription(description)
    \/ \E entry_type \in {"Added", "Fixed"} : BuilderType(entry_type)
    \/ \E flag \in BuilderFlags : BuilderIsBreakingChange(flag)
    \/ \E issue \in BuilderStrings : BuilderIssue(issue)
    \/ BuilderBuild

SpecBuilder == InitBuilder /\ [][NextBuilder]_vars

(***************************************************************************)
(* Rendering of entries that differ in description and issue only:         *)
(* entries_to_string applied to every list of at most MaxEntries of them.  *)
(***************************************************************************)
TextEntries ==
    {MkEntry(<<"u">>, <<"a">>, d, ty, b, i) :
        d \in BuilderDescriptions, ty \in {"Added", "Changed"}, b \in BOOLEAN,
        i \in {<<"1">>, <<"2">>}}

InitRenderText ==
    /\ dirExists = TRUE
    /\ store = EmptyStore
    /\ docs = NoDocs
    /\ pc = "render"
    /\ mEntries \in SeqsUpTo(TextEntries, MaxEntries)
    /\ mArgs = [version |-> <<"1.0.0">>,
                date |-> SomeDate([y |-> 2021, m |-> 8, d |-> 1]),
                changelog |-> NoPath]
    /\ mContent = <<>>
    /\ mergeResult = [status |-> "running", step |-> "none", fault |-> "none"]
    /\ preStore = EmptyStore
    /\ preDocs = NoDocs
    /\ merges = 1
    /\ createResult = NoCreate
    /\ interrupted = NotInterrupted
    /\ creators = NoCreators
    /\ update = NoUpdate
    /\ builder = EntryBuilderDefault
    /\ built = NotBuilt

SpecRenderText == InitRenderText /\ [][NextRender]_vars

(***************************************************************************)
(* to_markdown alone (entry.rs 111-129), applied to one entry.             *)
(***************************************************************************)
MarkdownEntries ==
    {MkEntry(<<"u">>, t, d, ty, b, i) :
        t \in Titles, d \in BuilderDescriptions, ty \in EntryType, b \in BOOLEAN,
        i \in {<<"1">>, <<"4", "2">>}}

InitMarkdown ==
    /\ dirExists = TRUE
    /\ store = EmptyStore
    /\ docs = NoDocs
    /\ pc = "to_markdown"
    /\ \E e \in MarkdownEntries : mEntries = <<e>>
    /\ InitCommon

\* entry.to_markdown()
EntryToMarkdown ==
    /\ pc = "to_markdown"
    /\ mContent' = to_markdown(mEntries[1])
    /\ pc' = "markdown"
    /\ UNCHANGED <<dirExists, store, docs, mArgs, mEntries, mergeResult, preStore,
                   preDocs, merges, createResult, interrupted, builderVars, otherVars>>

NextMarkdown == EntryToMarkdown

SpecMarkdown == InitMarkdown /\ [][NextMarkdown]_vars

(***************************************************************************)
(* is_newer_release alone (update.rs 46-71), applied to two versions.      *)
(***************************************************************************)
VersionComponents ==
    {<<"0">>, <<"1">>, <<"2">>, <<"1", "0">>,
     <<"4", "2", "9", "4", "9", "6", "7", "2", "9", "6">>}

\* Tag names and package versions: every N.N.N of the components, and some
\* texts of another form.
VersionTexts ==
    {a \o <<".">> \o b \o <<".">> \o c :
        a \in VersionComponents, b \in VersionComponents, c \in VersionComponents}
    \cup {<<>>, <<"1", ".", "0">>, <<"2", ".", "0", ".", "0", "-", "a">>,
          <<"1", ".", ".", "0">>, <<"1", ".", "0", ".", "0", ".", "0">>}

InitUpdate ==
    /\ dirExists = TRUE
    /\ store = EmptyStore
    /\ docs = NoDocs
    /\ pc = "idle"
    /\ mEntries = <<>>
    /\ InitBase
    /\ creators = NoCreators
    /\ \E release \in VersionTexts, current \in VersionTexts :
          update = [release |-> release, current |-> current, done |-> FALSE,
                    newer |-> FALSE]

\* is_newer_release(&latest_release, current_version)
IsNewerRelease ==
    /\ ~update.done
    /\ update' = [update EXCEPT !.done = TRUE,
                                !.newer = is_newer_release(update.release, update.current)]
    /\ UNCHANGED <<fsVars, mergeVars, builderVars, creators>>

NextUpdate == IsNewerRelease

SpecUpdate == InitUpdate /\ [][NextUpdate]_vars

(***************************************************************************)
(* Entries created on branches of many names, then merged, on a file       *)
(* system that does not fail.                                              *)
(***************************************************************************)
\* Branch names: every name of one to three of the characters T, b and _,
\* and some names with a hyphen or a digit.
BranchNames ==
    (SeqsUpTo({"T", "b", "_"}, 3) \ {<<>>})
    \cup {<<"T", "-", "-", "b">>, <<"-", "b">>, <<"1", "_", "-", "2">>}

InitBranches ==
    /\ dirExists \in BOOLEAN
    /\ store = EmptyStore
    /\ docs = [NoDocs EXCEPT ![DEFAULT_CHANGELOG_PATH] = File(BASE_CHANGELOG_CONTENT)]
    /\ pc = "idle"
    /\ mEntries = <<>>
    /\ InitCommon

NextBranches ==
    \/ /\ merges < MaxMerges
       /\ Cardinality(DOMAIN store) < MaxFiles
       /\ \E fields \in CreateFields, u \in Usernames, branch \in BranchNames :
             /\ fields.entry_type = SomeTok("ADDED")
             /\ create_process_static_input(fields, u, branch, "none")
    \/ /\ merges < MaxMerges
       /\ Cardinality(DOMAIN store) < MaxFiles
       /\ \E fields \in MainFields, u \in Usernames, branch \in BranchNames :
             /\ fields.description = None
             /\ main_process_static_input(fields, u, branch, "none")
    \/ /\ merges < MaxMerges
       /\ \E order \in Perms(JsonPaths(store)) :
             MergeReadEntries(<<"1.0.0">>, NoDate, NoPath, order, "none")
    \/ \E now \in Clock : MergeEntriesToString(now)
    \/ MergeWriteChangelog("none", FALSE)
    \/ MergeClearEntries("none", {})

SpecBranches == InitBranches /\ [][NextBranches]_vars

(***************************************************************************)
(* from_json alone (entry.rs 194-196), applied to one JSON text.           *)
(***************************************************************************)
\* The file from_json is given.
ParsePath == <<"e", ".json">>

\* JSON texts: the malformed one, and every object made of some of the six
\* members of an entry file, with a type, a description and an issue of
\* several kinds.
JsonTexts ==
    {Malformed} \cup
    {JObject(SelectSeq(<<Member("author", JStr(<<"u">>)),
                         Member("title", JStr(<<"a">>)),
                         Member("description", dv),
                         Member("type", tv),
                         Member("isBreakingChange", JBool(TRUE)),
                         Member("issue", iv)>>,
                       LAMBDA m : m.key \in keep)) :
        keep \in SUBSET {"author", "title", "description", "type", "isBreakingChange",
                         "issue"},
        dv \in {JNull, JStr(<<"d">>)},
        tv \in {JStr(<<"Added">>), JStr(<<"Technical">>), JStr(<<"ADDED">>),
                JStr(<<"added">>), JNull},
        iv \in {JStr(<<"1">>), JNum(42)}}

InitParse ==
    /\ dirExists = TRUE
    /\ \E j \in JsonTexts : store = (ParsePath :> j)
    /\ docs = NoDocs
    /\ pc = "from_json"
    /\ mEntries = <<>>
    /\ InitCommon

\* Entry::from_json(&json)
ParseEntry ==
    LET r == from_json(store[ParsePath])
    IN /\ pc = "from_json"
       /\ mEntries' = IF r.ok THEN <<r.entry>> ELSE <<>>
       /\ mergeResult' = [status |-> IF r.ok THEN "Ok" ELSE "Err", step |-> "parse",
                          fault |-> "none"]
       /\ pc' = "parsed"
       /\ UNCHANGED <<dirExists, store, docs, mArgs, mContent, preStore, preDocs,
                      merges, createResult, interrupted, builderVars, otherVars>>

NextParse == ParseEntry

SpecParse == InitParse /\ [][NextParse]_vars

(***************************************************************************)
(* Successive runs of merge on a file system that does not fail: the tool  *)
(* is run again after a merge has returned, or after the process has been  *)
(* stopped between two statements of merge_entries.                        *)
(***************************************************************************)
\* The process running merge_entries stops before its next statement.
Interrupt ==
    /\ pc \in {"render", "write", "clear"}
    /\ interrupted' = [at |-> pc, args |-> mArgs, entries |-> mEntries,
                       content |-> mContent]
    /\ mergeResult' = [status |-> "Interrupted", step |-> pc, fault |-> "none"]
    /\ pc' = "idle"
    /\ UNCHANGED <<dirExists, store, docs, mArgs, mEntries, mContent, preStore,
                   preDocs, merges, createResult, builderVars, otherVars>>

InitRuns ==
    /\ dirExists = TRUE
    /\ store \in {st \in InitialStores :
                     \A p \in JsonPaths(st) : from_json(st[p]).ok}
    /\ \E d \in InitialDocs : docs = [NoDocs EXCEPT ![DEFAULT_CHANGELOG_PATH] = d]
    /\ pc = "idle"
    /\ mEntries = <<>>
    /\ InitCommon

NextRuns ==
    \/ /\ merges < MaxRuns
       /\ \E version \in Versions :
             \E order \in Perms(JsonPaths(store)) :
                MergeReadEntries(version, NoDate, NoPath, order, "none")
    \/ \E now \in Clock : MergeEntriesToString(now)
    \/ MergeWriteChangelog("none", FALSE)
    \/ MergeClearEntries("none", {})
    \/ Interrupt
    \/ /\ merges < MaxRuns
       /\ \E fields \in MainFields, u \in Usernames, branch \in RunBranches :
             main_process_static_input(fields, u, branch, "none")

SpecRuns == InitRuns /\ [][NextRuns]_vars

(***************************************************************************)
(* Runs of create and merge whose free text (the version given to merge,   *)
(* the description of an entry) has several lines, one of which is the     *)
(* text of the anchor line.                                                *)
(***************************************************************************)
FreeTexts ==
    {<<"d">>,
     <<"x", "\n", "## [Unreleased]">>,
     <<"x", "\n", "## [Unreleased]", "\n", "y">>}

InitAnchor ==
    /\ dirExists = TRUE
    /\ store \in
          {EmptyStore}
          \cup {(<<"b", ".json">> :>
                    to_json(MkEntry(<<"u">>, <<"b">>, Some(t), "Added", FALSE, <<"2">>))) :
                   t \in FreeTexts}
    /\ \E d \in {Absent, File(BASE_CHANGELOG_CONTENT)} :
          docs = [NoDocs EXCEPT ![DEFAULT_CHANGELOG_PATH] = d]
    /\ pc = "idle"
    /\ mEntries = <<>>
    /\ InitCommon

NextAnchor ==
    \/ /\ merges < MaxRuns
       /\ \E version \in {<<"1.0.0">>,
                            <<"1", "]", "\n", "## [Unreleased]", "\n", "[", "2">>} :
             \E order \in Perms(JsonPaths(store)) :
                MergeReadEntries(version, NoDate, NoPath, order, "none")
    \/ \E now \in Clock : MergeEntriesToString(now)
    \/ MergeWriteChangelog("none", FALSE)
    \/ MergeClearEntries("none", {})
    \/ /\ merges < MaxRuns
       /\ Cardinality(DOMAIN store) < MaxFiles
       /\ \E d \in {None} \cup {Some(t) : t \in FreeTexts},
             u \in Usernames, branch \in RunBranches :
             main_process_static_input(
                 [author |-> None, title |-> <<"a">>, type |-> "Changed",
                  is_breaking_change |-> NoneBool, issue |-> <<"1">>,
                  description |-> d],
                 u, branch, "none")

SpecAnchor == InitAnchor /\ [][NextAnchor]_vars

(***************************************************************************)
(* Two invocations of create side by side: each process calls write_entry  *)
(* once, and the system calls of the two interleave.                       *)
(***************************************************************************)
RaceFilenames == {<<"b">>, <<"t", "-", "b">>}

\* What process i writes: the entry titled a in process 1, b in process 2.
RaceBuffer(i) ==
    to_json(MkEntry(<<"u">>, IF i = 1 THEN <<"a">> ELSE <<"b">>, None,
                    "Changed", FALSE, <<"1">>))

InitRace ==
    /\ dirExists \in BOOLEAN
    /\ store \in
          {EmptyStore,
           (<<"b", ".json">> :>
              to_json(MkEntry(<<"u">>, <<"c">>, None, "Fixed", FALSE, <<"3">>)))}
    /\ dirExists \/ store = EmptyStore
    /\ docs = [NoDocs EXCEPT ![DEFAULT_CHANGELOG_PATH] = File(BASE_CHANGELOG_CONTENT)]
    /\ pc = "idle"
    /\ mEntries = <<>>
    /\ InitCommon

NextRace ==
    \/ \E i \in Proc, filename \in RaceFilenames :
          CallWriteEntry(i, filename, RaceBuffer(i))
    \/ \E i \in Proc : PathExists(i)
    \/ \E i \in Proc : CreateDir(i)
    \/ \E i \in Proc : CreateNew(i)
    \/ \E i \in Proc : WriteAll(i)

SpecRace == InitRace /\ [][NextRace]_vars

(***************************************************************************)
(* A merge and invocations of create side by side: the statements of       *)
(* merge_entries interleave with the system calls of write_entry.  No file *)
(* lock keeps them apart.                                                  *)
(***************************************************************************)
NextConcurrent ==
    \/ /\ merges < MaxMerges
       /\ \E order \in Perms(JsonPaths(store)) :
             MergeReadEntries(<<"1.0.0">>, NoDate, NoPath, order, "none")
    \/ \E now \in Clock : MergeEntriesToString(now)
    \/ MergeWriteChangelog("none", FALSE)
    \/ MergeClearEntries("none", {})
    \/ \E i \in Proc, filename \in RaceFilenames :
          CallWriteEntry(i, filename, RaceBuffer(i))
    \/ \E i \in Proc : PathExists(i)
    \/ \E i \in Proc : CreateDir(i)
    \/ \E i \in Proc : CreateNew(i)
    \/ \E i \in Proc : WriteAll(i)

SpecConcurrent == InitRace /\ [][NextConcurrent]_vars

(***************************************************************************)
(* Properties.                                                             *)
(***************************************************************************)
MergeReturned == mergeResult.status \in {"Ok", "Err"}
MergePath == IF mArgs.changelog.some THEN mArgs.changelog.val ELSE DEFAULT_CHANGELOG_PATH
PendingBefore == JsonPaths(preStore)

\* C1: a merge that fails while listing the store, reading or parsing an
\* entry file, or creating, reading or writing the document leaves the
\* store exactly as it was when the merge started.
C1_FailedMergeKeepsPendingEntries ==
    (/\ mergeResult.status = "Err"
     /\ mergeResult.step \in {"list", "read", "parse", "document"})
    => store = preStore

\* C1 witness: a merge with pending entries that failed at the document.
C1_Witness ==
    /\ mergeResult.status = "Err"
    /\ mergeResult.step = "document"
    /\ Cardinality(PendingBefore) = 2
    /\ store = preStore

\* C2 as stated: whichever step fails, no pending entry file has been
\* removed when merge returns an error.
C2_NoFileRemovedOnAnyFailure ==
    mergeResult.status = "Err" => DOMAIN preStore \subseteq DOMAIN store

\* C2 amended: when merge returns an error and a pending entry file is
\* gone, the failing step is the clear step and the document holds the
\* result of the successful write.
C2_FilesRemovedOnlyByFailingClear ==
    (/\ mergeResult.status = "Err"
     /\ ~(DOMAIN preStore \subseteq DOMAIN store))
    => /\ mergeResult.step = "clear"
       /\ docs[MergePath].exists
       /\ docs[MergePath].content =
             Replace(IF preDocs[MergePath].exists THEN preDocs[MergePath].content
                     ELSE BASE_CHANGELOG_CONTENT,
                     Anchor, Anchor \o <<"\n">> \o mContent \o <<"\n">>)

\* C2 witness: the clear step failed after removing one of two files.
C2_Witness ==
    /\ mergeResult.status = "Err"
    /\ mergeResult.step = "clear"
    /\ Cardinality(PendingBefore) = 2
    /\ Cardinality(JsonPaths(store)) = 1

\* C3: a create under a name whose file exists returns AlreadyExists to
\* its caller and leaves the file as it was.
C3_CollisionIsSurfaced ==
    (/\ createResult.op = "create"
     /\ createResult.returned # "panic"
     /\ createResult.existed)
    => /\ createResult.returned = "AlreadyExists"
       /\ store[createResult.path] = createResult.prior

\* Headings of a rendered section: the tokens that follow "### ".
Headings(text) ==
    LET idx == {i \in 1..Len(text) - 1 : text[i] = "### "}
        nth[k \in 0..Cardinality(idx)] ==
            IF k = 0 THEN 0 ELSE CHOOSE i \in idx : i > nth[k - 1] /\
                                     \A j \in idx : j > nth[k - 1] => i <= j
    IN [k \in 1..Cardinality(idx) |-> text[nth[k] + 1]]

\* Rank of a heading in the enumeration order of the categories.
HeadingRank(h) ==
    CASE h = "Added" -> 1 [] h = "Changed" -> 2 [] h = "Fixed" -> 3
      [] h = "Removed" -> 4 [] h = "Deprecated" -> 5 [] h = "Security" -> 6
      [] h = "Technical" -> 7 [] OTHER -> 0

\* C4: the headings of a rendered section are strictly increasing in the
\* enumeration order, and they are exactly the categories of the entries.
C4_HeadingsInEnumerationOrder ==
    (pc = "write" /\ mEntries # <<>>)
    => LET hs == Headings(mContent)
       IN /\ \A i, j \in 1..Len(hs) : i < j => HeadingRank(hs[i]) < HeadingRank(hs[j])
          /\ \A i \in 1..Len(hs) : HeadingRank(hs[i]) > 0
          /\ {hs[i] : i \in 1..Len(hs)} = {mEntries[i].type : i \in 1..Len(mEntries)}

\* C4 witness: entries read in the reverse of the enumeration order.
C4_Witness ==
    /\ pc = "write"
    /\ Len(mEntries) = 3
    /\ mEntries[1].type = "Technical"
    /\ mEntries[2].type = "Removed"
    /\ mEntries[3].type = "Added"
    /\ Headings(mContent) = <<"Added", "Removed", "Technical">>

\* The text rendered under the heading of a category.
CategoryBody(text, t) ==
    LET starts == {i \in 1..Len(text) - 1 : text[i] = "### " /\ text[i + 1] = t}
        start == CHOOSE i \in starts : TRUE
        nexts == {i \in 1..Len(text) : i > start /\ text[i] = "### "}
        end == IF nexts = {} THEN Len(text) + 1
               ELSE CHOOSE i \in nexts : \A j \in nexts : i <= j
    IN IF starts = {} THEN <<>> ELSE SubSeq(text, start + 2, end - 1)

\* The list item of an entry, as the claim describes it.
ItemOf(e) ==
    <<"- [">> \o (IF e.is_breaking_change THEN <<"**BREAKING CHANGE**", " ">> ELSE <<>>)
    \o e.title \o <<"](">> \o e.issue \o <<")">>

\* Every item of x is rendered before every item of y in the text.
RendersBefore(text, x, y) ==
    /\ Occurrences(text, ItemOf(x)) # {}
    /\ Occurrences(text, ItemOf(y)) # {}
    /\ \A i \in Occurrences(text, ItemOf(x)), j \in Occurrences(text, ItemOf(y)) : i < j

\* C5: within a category, breaking entries come before non-breaking ones,
\* and entries of the same breaking status are in ascending title order.
C5_BreakingFirstThenTitle ==
    pc = "write"
    => \A i, j \in 1..Len(mEntries) :
          LET x == mEntries[i]
              y == mEntries[j]
              body == CategoryBody(mContent, x.type)
          IN (x.type = y.type /\
              \/ x.is_breaking_change /\ ~y.is_breaking_change
              \/ /\ x.is_breaking_change = y.is_breaking_change
                 /\ StrCmp(x.title, y.title) < 0)
             => RendersBefore(body, x, y)

\* C5 witness: a non-breaking "a" read before a breaking "b" of its category.
C5_Witness ==
    /\ pc = "write"
    /\ Len(mEntries) = 3
    /\ mEntries[3] = mEntries[1]
    /\ mEntries[1].type = mEntries[2].type
    /\ mEntries[1].title = <<"a">> /\ ~mEntries[1].is_breaking_change
    /\ mEntries[2].title = <<"b">> /\ mEntries[2].is_breaking_change
    /\ RendersBefore(mContent, mEntries[2], mEntries[1])

\* Entries of every category, flag and kind of description.
RoundTripEntries ==
    {MkEntry(<<"u">>, <<"a">>, d, ty, b, <<"1">>) :
        d \in {None, Some(<<>>), Some(<<"d">>)}, ty \in EntryType, b \in BOOLEAN}

\* C6: from_json(to_json(e)) = e for every entry, and the file written by
\* a successful create parses to the entry that was created.
C6_RoundTrip ==
    /\ \A e \in RoundTripEntries : from_json(to_json(e)) = [ok |-> TRUE, entry |-> e]
    /\ (createResult.op = "create" /\ createResult.io = "Ok")
       => from_json(store[createResult.path]) = [ok |-> TRUE, entry |-> createResult.entry]

\* C7: a merge with no pending entry on an existing document leaves the
\* document as it was and fails only on an I/O failure.
C7_EmptyMergeKeepsDocument ==
    (/\ MergeReturned
     /\ dirExists
     /\ PendingBefore = {}
     /\ preDocs[MergePath].exists)
    => /\ docs = preDocs
       /\ mergeResult.status = "Ok" \/ mergeResult.fault # "none"

\* C7 witness: an empty merge succeeded on a document that has the anchor.
C7_Witness ==
    /\ mergeResult.status = "Ok"
    /\ PendingBefore = {}
    /\ preDocs[MergePath].exists
    /\ Occurrences(preDocs[MergePath].content, Anchor) # {}
    /\ docs = preDocs

\* C8 as stated: a merge with no pending entry does not touch the
\* document; a document that did not exist still does not exist.
C8_EmptyMergeNeverTouchesDocument ==
    (mergeResult.status = "Ok" /\ PendingBefore = {}) => docs = preDocs

\* C8 amended: a successful merge with no pending entry leaves an existing
\* document as it was and creates a missing one from the template, with
\* no release section.
C8_EmptyMergeCreatesMissingDocument ==
    (/\ mergeResult.status = "Ok"
     /\ PendingBefore = {})
    => docs = [preDocs EXCEPT ![MergePath] =
                  IF @.exists THEN @ ELSE File(BASE_CHANGELOG_CONTENT)]

\* C8 witness: an empty merge created the document.
C8_Witness ==
    /\ mergeResult.status = "Ok"
    /\ PendingBefore = {}
    /\ ~preDocs[MergePath].exists
    /\ docs[MergePath] = File(BASE_CHANGELOG_CONTENT)

\* C9: no Entry with an empty author, title or issue comes out of build.
C9_BuildRejectsMissingFields ==
    (built.done /\ built.ok)
    => /\ built.entry.author # <<>>
       /\ built.entry.title # <<>>
       /\ built.entry.issue # <<>>

\* C10: when a pending entry file does not deserialize, merge returns an
\* error and the documents are as they were.
C10_MalformedEntryAbortsMerge ==
    (/\ mergeResult.status # "none"
     /\ \E p \in PendingBefore : ~from_json(preStore[p]).ok)
    => /\ mergeResult.status = "Err"
       /\ docs = preDocs

\* C10 witness: a batch of one well-formed and one malformed file failed
\* at parsing.
C10_Witness ==
    /\ mergeResult.status = "Err"
    /\ mergeResult.step = "parse"
    /\ \E p, q \in PendingBefore : from_json(preStore[p]).ok /\ ~from_json(preStore[q]).ok
    /\ docs = preDocs

(***************************************************************************)
(* The release block in the document.                                      *)
(***************************************************************************)
\* The document of the merge before it started and as it is now.
DocBefore == preDocs[MergePath].content
DocNow == docs[MergePath].content

\* The document had the anchor line, once, when the merge started.
HadOneAnchor ==
    /\ preDocs[MergePath].exists
    /\ Cardinality(Occurrences(DocBefore, Anchor)) = 1

\* Position of the last token of the anchor line in a text that has one.
AnchorEnd(text) ==
    (CHOOSE i \in Occurrences(text, Anchor) : TRUE) + Len(Anchor) - 1

\* Positions at which a rendered release section starts.
ReleaseHeadings(text) == Occurrences(text, <<"## [">>)

\* C11: after a successful merge of a non-empty pending set into a document
\* that has the anchor line, the document is: everything up to the anchor
\* line, one blank line, the rendered block (which starts at its heading and
\* ends at the end of its last line), one blank line, everything that
\* followed the anchor line; so every release section that was already in
\* the document starts below the end of the new one.
C11_BlockRightAfterAnchor ==
    (/\ mergeResult.status = "Ok"
     /\ mEntries # <<>>
     /\ HadOneAnchor)
    => LET k == AnchorEnd(DocBefore)
           n == Len(mContent)
       IN /\ n >= 2
          /\ mContent[1] = "## ["
          /\ mContent[n] = "\n"
          /\ ~IsWhitespace(mContent[n - 1])
          /\ DocNow = SubSeq(DocBefore, 1, k) \o <<"\n">> \o mContent \o <<"\n">>
                       \o SubSeq(DocBefore, k + 1, Len(DocBefore))
          /\ k + 2 \in ReleaseHeadings(DocNow)
          /\ \A h \in ReleaseHeadings(DocNow) \ {k + 2} :
                /\ h > k + 2 + n
                /\ h - n - 2 \in ReleaseHeadings(DocBefore)

\* C11 witness: the second of two merges has put the section of its
\* version above the section an earlier run had written.
C11_Witness ==
    /\ mergeResult.status = "Ok"
    /\ merges = 2
    /\ mEntries # <<>>
    /\ HadOneAnchor
    /\ ReleaseHeadings(DocBefore) # {}
    /\ \E i \in Occurrences(DocNow, <<"## [">> \o mArgs.version),
          j \in ReleaseHeadings(DocNow) :
          /\ i < j
          /\ ~StartsWith(SubSeq(DocNow, j, Len(DocNow)), <<"## [">> \o mArgs.version)

\* C12: a successful merge leaves every other document alone and changes
\* the document it was given only by an insertion: the text up to and
\* including the anchor line is where it was, the text that followed it is
\* at the end in the same order, and what lies between the two is either
\* nothing or the blank line, the release block and the blank line.
C12_MergeOnlyInserts ==
    (/\ mergeResult.status = "Ok"
     /\ preDocs[MergePath].exists)
    => LET k == IF Occurrences(DocBefore, Anchor) # {} THEN AnchorEnd(DocBefore)
                ELSE Len(DocBefore)
           rest == Len(DocBefore) - k
           inserted == Len(DocNow) - Len(DocBefore)
       IN /\ \A p \in DocPaths \ {MergePath} : docs[p] = preDocs[p]
          /\ docs[MergePath].exists
          /\ inserted >= 0
          /\ SubSeq(DocNow, 1, k) = SubSeq(DocBefore, 1, k)
          /\ SubSeq(DocNow, k + inserted + 1, Len(DocNow))
                = SubSeq(DocBefore, k + 1, Len(DocBefore))
          /\ SubSeq(DocNow, k + 1, k + inserted)
                \in {<<>>, <<"\n">> \o mContent \o <<"\n">>}

\* C12 witness: a release block was inserted into a document that had an
\* earlier release section below the anchor line.
C12_Witness ==
    /\ mergeResult.status = "Ok"
    /\ mEntries # <<>>
    /\ HadOneAnchor
    /\ Occurrences(DocBefore, OldSection) # {}
    /\ Occurrences(DocNow, OldSection) # {}
    /\ Occurrences(DocNow, mContent) # {}
    /\ DocNow # DocBefore

\* C13 as stated: after a successful merge of a non-empty pending set into
\* a document that did not exist, the document is exactly the template, a
\* blank line and the rendered section.
C13_MissingDocumentIsTemplateThenSection ==
    (/\ mergeResult.status = "Ok"
     /\ mEntries # <<>>
     /\ ~preDocs[MergePath].exists)
    => /\ docs[MergePath].exists
       /\ DocNow = BASE_CHANGELOG_CONTENT \o <<"\n">> \o mContent

\* C13 amended: after a successful merge of a non-empty pending set into a
\* document that did not exist, at the default path or at an explicit one,
\* the document is exactly the template, a blank line, the rendered section
\* and one more blank line.
C13_MissingDocumentIsTemplateThenSplice ==
    (/\ mergeResult.status = "Ok"
     /\ mEntries # <<>>
     /\ ~preDocs[MergePath].exists)
    => /\ docs[MergePath].exists
       /\ DocNow = BASE_CHANGELOG_CONTENT \o <<"\n">> \o mContent \o <<"\n">>

\* C13 witness: a merge given an explicit path in a folder wrote the
\* document that was not there.
C13_Witness ==
    /\ mergeResult.status = "Ok"
    /\ mEntries # <<>>
    /\ mArgs.changelog = SomePath(SubfolderPath)
    /\ ~preDocs[SubfolderPath].exists
    /\ docs[SubfolderPath] =
          File(BASE_CHANGELOG_CONTENT \o <<"\n">> \o mContent \o <<"\n">>)

\* C14: when merge has returned success the store holds no pending entry
\* file: listing it succeeds and gives the empty sequence, which renders to
\* the empty text.
C14_StoreEmptyAfterSuccess ==
    mergeResult.status = "Ok"
    => /\ JsonPaths(store) = {}
       /\ \A order \in Perms(JsonPaths(store)) :
             LET r == read_entries(dirExists, store, order, "none")
             IN /\ r.ok
                /\ r.entries = <<>>
                /\ \A now \in Clock :
                      entries_to_string(r.entries, mArgs.version, now) = <<>>

\* C14 witness: a merge of two pending entries has succeeded and removed
\* both files.
C14_Witness ==
    /\ mergeResult.status = "Ok"
    /\ Cardinality(PendingBefore) = 2
    /\ Len(mEntries) = 2
    /\ JsonPaths(store) = {}

\* C19: the markdown of an entry is the line "- [<prefix><title>](<issue>)",
\* where the prefix is "**BREAKING CHANGE** " exactly when the entry is a
\* breaking change, followed by the line "  <description>" exactly when a
\* description is present (an empty one gives an empty indented line).
C19_MarkdownOfEntry ==
    pc = "markdown"
    => LET e == mEntries[1]
           prefix == IF e.is_breaking_change THEN <<"**BREAKING CHANGE**", " ">>
                     ELSE <<>>
           first == <<"- [">> \o prefix \o e.title \o <<"](">> \o e.issue
                    \o <<")", "\n">>
           second == IF e.description.some
                     THEN <<"  ">> \o e.description.val \o <<"\n">>
                     ELSE <<>>
       IN /\ mContent = first \o second
          /\ (Occurrences(mContent, <<"**BREAKING CHANGE**">>) # {})
                <=> e.is_breaking_change
          /\ (Occurrences(mContent, <<"\n", "  ">>) # {}) <=> e.description.some
          /\ e.description = Some(<<>>)
                => SubSeq(mContent, Len(mContent) - 2, Len(mContent))
                     = <<"\n", "  ", "\n">>

\* C19 witness: the markdown of a breaking entry with an empty description
\* has the prefix and ends with an empty indented line.
C19_Witness ==
    /\ pc = "markdown"
    /\ mEntries[1].is_breaking_change
    /\ mEntries[1].description = Some(<<>>)
    /\ mContent = <<"- [", "**BREAKING CHANGE**", " ">> \o mEntries[1].title
                   \o <<"](">> \o mEntries[1].issue \o <<")", "\n", "  ", "\n">>

(***************************************************************************)
(* The text of a release section.                                          *)
(***************************************************************************)
\* The date of the release heading of the merge.
HeadingDate == IF mArgs.date.some THEN mArgs.date.val ELSE CHOOSE now \in Clock : TRUE

RECURSIVE CategoriesAsDescribed(_, _)
\* For each category of cats that has entries: a blank line, the heading,
\* a blank line and the markdown of its entries, in their sorted order, one
\* after the other.
CategoriesAsDescribed(cats, entries) ==
    IF cats = <<>> THEN <<>>
    ELSE LET mine == SortEntries(SelectSeq(entries, LAMBDA e : e.type = Head(cats)))
         IN (IF mine = <<>> THEN <<>>
             ELSE <<"\n", "### ", Head(cats), "\n", "\n">> \o ConcatMarkdown(mine))
            \o CategoriesAsDescribed(Tail(cats), entries)

\* C15: the section rendered from a non-empty list of entries is exactly
\* the release heading line followed, for each non-empty category in
\* enumeration order, by a blank line, the category heading, a blank line
\* and the markdown of the entries of the category, nothing added or
\* removed.
C15_SectionIsHeadingsAndMarkdown ==
    (pc = "write" /\ mEntries # <<>>)
    => mContent = <<"## [">> \o mArgs.version \o <<"] - ">> \o FormatDate(HeadingDate)
                  \o <<"\n">> \o CategoriesAsDescribed(EntryTypeDecl, mEntries)

\* The entries of the merge in every order a directory listing can give.
Enumerations(entries) ==
    {[i \in 1..Len(entries) |-> entries[order[i]]] : order \in Perms(1..Len(entries))}

\* C16: the rendered section does not depend on the order in which the
\* entries were read: every enumeration of the same entries renders to the
\* same text.
C16_RenderingIgnoresEnumerationOrder ==
    pc = "write"
    => \A other \in Enumerations(mEntries) :
          entries_to_string(other, mArgs.version, HeadingDate) = mContent

(***************************************************************************)
(* The two effects of merge.                                               *)
(***************************************************************************)
\* The merge is, or was stopped, between write_changelog and clear_entries.
BetweenWriteAndClear ==
    \/ pc = "clear"
    \/ mergeResult.status = "Interrupted" /\ mergeResult.step = "clear"

\* The document the merge writes to has, or is created with, the anchor line.
AnchorAvailable ==
    ~preDocs[MergePath].exists \/ Occurrences(DocBefore, Anchor) # {}

\* C17: merge writes the document first and clears the store afterwards, in
\* two separate steps.  Before the write neither has changed; between the
\* write and the clear, also when the run stops there, every pending entry
\* file is still in the store and the section is already in the document
\* (given the anchor line); and a later successful merge that renders the
\* same section again leaves two copies of it in the document.
C17_WriteThenClearNotAtomic ==
    /\ pc = "write" => (store = preStore /\ docs = preDocs)
    /\ BetweenWriteAndClear
          => /\ store = preStore
             /\ (mEntries # <<>> /\ AnchorAvailable)
                   => Occurrences(DocNow, mContent) # {}
    /\ (/\ mergeResult.status = "Ok"
        /\ interrupted.at = "clear"
        /\ interrupted.entries # <<>>
        /\ mContent = interrupted.content
        /\ mArgs.changelog = interrupted.args.changelog
        /\ AnchorAvailable)
          => Cardinality(Occurrences(DocNow, mContent)) >= 2

\* C17 witness: a merge was stopped between the write and the clear, the
\* next run found the same two entry files, rendered the same section and
\* succeeded; the document holds the section twice.
C17_Witness ==
    /\ mergeResult.status = "Ok"
    /\ merges = 2
    /\ interrupted.at = "clear"
    /\ Len(interrupted.entries) = 2
    /\ mEntries = interrupted.entries
    /\ mContent = interrupted.content
    /\ Cardinality(Occurrences(DocNow, mContent)) = 2
    /\ JsonPaths(store) = {}

\* C18: in every state in which merge has removed a pending entry file, the
\* document contains the release section rendered from the entries of that
\* merge, whatever the document held before.
C18_FilesRemovedOnlyAfterSectionWritten ==
    (/\ mergeResult.status \in {"Ok", "Err"}
     /\ \E p \in PendingBefore : p \notin DOMAIN store)
    => /\ mEntries # <<>>
       /\ mContent # <<>>
       /\ docs[MergePath].exists
       /\ Occurrences(DocNow, mContent) # {}

\* C20: whichever create wrote it, the file of an entry without a
\* description has "description" null or omitted, never the empty string.
C20_AbsentDescriptionIsNotEmptyString ==
    (/\ createResult.op \in {"create", "main_create"}
     /\ createResult.io = "Ok"
     /\ ~createResult.entry.description.some)
    => LET file == store[createResult.path]
       IN /\ file.wf
          /\ HasKey(file, "description") => Value(file, "description") = JNull
          /\ \A i \in MembersOf(file, "description") :
                file.members[i].val # JStr(<<>>)

(***************************************************************************)
(* Parsing of an entry file.                                               *)
(***************************************************************************)
\* The seven category identifiers as they are written in an entry file.
CategoryIdentifiers ==
    {JStr(<<"Added">>), JStr(<<"Changed">>), JStr(<<"Fixed">>), JStr(<<"Removed">>),
     JStr(<<"Deprecated">>), JStr(<<"Security">>), JStr(<<"Technical">>)}

\* Entries whose files, without the description member, are given to
\* from_json.
EntriesWithoutDescription ==
    {MkEntry(<<"u">>, <<"a">>, None, ty, TRUE, <<"1">>) : ty \in {"Added", "Technical"}}

\* C21: from_json gives an error and no entry for a text that is not valid
\* JSON, that lacks author, title, type or issue, or whose type is not one
\* of the seven category identifiers; the file of an entry written without
\* its description member is accepted and gives that entry with no
\* description.
C21_FromJsonRejectsAndAccepts ==
    pc = "parsed"
    => LET j == store[ParsePath]
           rejected ==
               \/ ~j.wf
               \/ \E key \in {"author", "title", "type", "issue"} : ~HasKey(j, key)
               \/ HasKey(j, "type") /\ Value(j, "type") \notin CategoryIdentifiers
       IN /\ rejected => (mergeResult.status = "Err" /\ mEntries = <<>>)
          /\ \A e \in EntriesWithoutDescription :
                j = JObject(SelectSeq(to_json(e).members,
                                      LAMBDA m : m.key # "description"))
                => (mergeResult.status = "Ok" /\ mEntries = <<e>>)

\* C21 witness: a file with every member but the description was parsed
\* into an entry without description.
C21_Witness ==
    /\ pc = "parsed"
    /\ ~HasKey(store[ParsePath], "description")
    /\ Len(store[ParsePath].members) = 5
    /\ mergeResult.status = "Ok"
    /\ Len(mEntries) = 1
    /\ mEntries[1].description = None
    /\ mEntries[1].type = "Technical"

(***************************************************************************)
(* Precedence of versions.                                                 *)
(***************************************************************************)
\* The three numbers of a version of the form N.N.N.
NumbersOf(version) ==
    [i \in 1..3 |-> StripZeros(Split(version, ".")[i])]

\* Version x is strictly below version y in major.minor.patch order.
LowerPrecedence(x, y) ==
    LET a == NumbersOf(x)
        b == NumbersOf(y)
    IN \/ NumberCmp(a[1], b[1]) < 0
       \/ a[1] = b[1] /\ NumberCmp(a[2], b[2]) < 0
       \/ a[1] = b[1] /\ a[2] = b[2] /\ NumberCmp(a[3], b[3]) < 0

\* C24: is_newer_release answers true exactly when both versions have the
\* form N.N.N and the release is strictly above the current version in
\* major.minor.patch order.
C24_NewerIsPrecedence ==
    update.done
    => (update.newer
          <=> /\ is_valid_semver_version(update.release)
              /\ is_valid_semver_version(update.current)
              /\ LowerPrecedence(update.current, update.release))

(***************************************************************************)
(* The file of a created entry.                                            *)
(***************************************************************************)
RECURSIVE CollapseHyphens(_)
\* Every run of hyphens becomes one hyphen.
CollapseHyphens(s) ==
    IF Len(s) < 2 THEN s
    ELSE IF s[1] = "-" /\ s[2] = "-" THEN CollapseHyphens(Tail(s))
    ELSE <<s[1]>> \o CollapseHyphens(Tail(s))

RECURSIVE StripHyphens(_)
\* Without the hyphens at its two ends.
StripHyphens(s) ==
    IF s = <<>> THEN s
    ELSE IF s[1] = "-" THEN StripHyphens(Tail(s))
    ELSE IF s[Len(s)] = "-" THEN StripHyphens(SubSeq(s, 1, Len(s) - 1))
    ELSE s

\* The slug as it is described: lower case, each run of characters that
\* are not letters or digits replaced by one hyphen, no hyphen at the ends.
SlugAsDescribed(name) ==
    StripHyphens(CollapseHyphens(
        [i \in 1..Len(name) |->
            IF name[i] \in {"T", "b", "t", "1", "2"} THEN ToLower(name[i]) ELSE "-"]))

\* A create has written its file.
Created ==
    /\ createResult.op \in {"create", "main_create"}
    /\ createResult.io = "Ok"

\* C23: a create that succeeded has stored the entry in the file
\* <slug of the branch name>.json of the store folder, which exists
\* afterwards also when it did not before.
C23_EntryStoredUnderSlug ==
    Created
    => /\ dirExists
       /\ createResult.path = SlugAsDescribed(createResult.branch) \o <<".json">>
       /\ createResult.path \in DOMAIN store
       /\ ~createResult.existed
       /\ store[createResult.path].wf
       /\ Value(store[createResult.path], "title") = JStr(createResult.entry.title)
       /\ Value(store[createResult.path], "author") = JStr(createResult.entry.author)

\* C23 witness: in a checkout without store folder, create on the branch
\* T_b has written t-b.json.
C23_Witness ==
    /\ Created
    /\ createResult.op = "create"
    /\ ~createResult.folder
    /\ dirExists
    /\ createResult.branch = <<"T", "_", "b">>
    /\ DOMAIN store = {<<"t", "-", "b", ".json">>}

\* C26: the file a create has written, whatever the branch name, is one
\* of the files the next listing of the store returns, so that no created
\* file stays in the store where merge does not see it.
C26_CreatedEntryIsListed ==
    (Created /\ createResult.path \in DOMAIN store)
    => createResult.path \in JsonPaths(store)

(***************************************************************************)
(* The anchor line of the document.                                        *)
(***************************************************************************)
\* Positions of the lines of a text that are exactly the anchor text.
AnchorLines(text) ==
    {i \in 1..Len(text) :
        /\ text[i] = "## [Unreleased]"
        /\ (i = 1 \/ text[i - 1] = "\n")
        /\ (i = Len(text) \/ text[i + 1] = "\n")}

\* C25: after every successful merge, whatever the version given to it and
\* whatever the titles, issues and descriptions of the entries created
\* before it, the document that was or started as the standard template has
\* the anchor line exactly once.
C25_AnchorLineExactlyOnce ==
    mergeResult.status = "Ok"
    => Cardinality(AnchorLines(DocNow)) = 1

(***************************************************************************)
(* Invocations of create side by side.                                     *)
(***************************************************************************)
\* Process i has returned from write_entry.
Returned(i) == creators[i].pc = "done"

C27_ClearRemovesOnlyWhatMergeRead ==
    mergeResult.status = "Ok"
    => \A i \in Proc :
          (/\ creators[i].res = "Ok"
           /\ EntryPath(creators[i].filename) \notin PendingBefore)
          => EntryPath(creators[i].filename) \in DOMAIN store

====
